---- MODULE Spec2Model ----
(***************************************************************************)
(* Copy-number segment consolidation, ploidy normalisation, arm            *)
(* classification and gene overlap of generate_input.py (LGenIC): the      *)
(* SampleCNVs profile of one sample, the chromosome arm table and the gene *)
(* table, and the operations SampleCNVs.add / merge_overlapping_cnvs,      *)
(* SampleCNVs.adjust_ploidy, SampleCNVs.overlap_chrom, get_overlap_genes, *)
(* Chromosome.add and the loops of generate_cnv_files over the samples.    *)
(*                                                                         *)
(* Python lists are sequences; a Python index i is the TLA+ index i + 1.   *)
(* A Python value that may be None is a sequence of length 0 or 1.         *)
(***************************************************************************)
EXTENDS Integers, Sequences, FiniteSets, TLC

VARIABLES starts, ends, cn_states, len_seg, is_chr_prefixed, ploidy,
          arm_coords, gene_coords, inserted, calls, last, returned,
          sample_cnvs, pc, focal_cn_thresh, sample_ids,
          out_cnv_gene, out_cnv_arm, log, annotated

\* the state of a run of generate_cnv_files: its dictionary of SampleCNVs, the
\* position it has reached, two of its arguments, the lines written to its two
\* output files, and the record of the calls it has made
run == <<sample_cnvs, pc, focal_cn_thresh, sample_ids,
         out_cnv_gene, out_cnv_arm, log, annotated>>

vars == <<starts, ends, cn_states, len_seg, is_chr_prefixed, ploidy,
          arm_coords, gene_coords, inserted, calls, last, returned, run>>

(***************************************************************************)
(* Bounds of the model.                                                    *)
(***************************************************************************)
\* coordinates of the input segments range over 0..MaxPos
MaxPos == 4
\* copy-number states of the input segments range over 0..MaxCN
MaxCN == 4
\* number of add calls explored on one chromosome (specification SpecAdd)
MaxInserts == 3
\* number of add calls before and between normalisations (specification Spec)
MaxLines == 2
\* number of adjust_ploidy calls (specification Spec)
MaxAdjust == 2

Positions == 0..MaxPos
CNs == 0..MaxCN

\* contig names as they appear in the segment file, and the keys they are stored under
ChromNames == {"1", "chr1", "2"}
Chroms == {"1", "2"}

(***************************************************************************)
(* Python values.                                                          *)
(***************************************************************************)
None == <<>>
Some(x) == <<x>>
Val(o) == o[1]

EmptyDict == [c \in {} |-> <<>>]

DictSet(d, k, v) == [c \in (DOMAIN d) \cup {k} |-> IF c = k THEN v ELSE d[c]]

\* list.pop(i) and list.insert(i, x), i a Python index
ListPop(l, i) == SubSeq(l, 1, i) \o SubSeq(l, i + 2, Len(l))
ListInsert(l, i, x) == SubSeq(l, 1, i) \o <<x>> \o SubSeq(l, i + 1, Len(l))

\* str.startswith("chr") and str.replace("chr", "") on the contig names
StartsWithChr(name) == name \in {"chr1", "chr2"}
StripChr(name) == IF name = "chr1" THEN "1" ELSE IF name = "chr2" THEN "2" ELSE name

(***************************************************************************)
(* bisect.bisect_right(a, x) and bisect.bisect_left(a, x): the binary      *)
(* search of the standard library, lo and hi being Python indices.         *)
(***************************************************************************)
RECURSIVE BisectRightFrom(_, _, _, _)
BisectRightFrom(a, x, lo, hi) ==
    IF lo < hi
    THEN LET mid == (lo + hi) \div 2
         IN IF x < a[mid + 1]
            THEN BisectRightFrom(a, x, lo, mid)
            ELSE BisectRightFrom(a, x, mid + 1, hi)
    ELSE lo

RECURSIVE BisectLeftFrom(_, _, _, _)
BisectLeftFrom(a, x, lo, hi) ==
    IF lo < hi
    THEN LET mid == (lo + hi) \div 2
         IN IF a[mid + 1] < x
            THEN BisectLeftFrom(a, x, mid + 1, hi)
            ELSE BisectLeftFrom(a, x, lo, mid)
    ELSE lo

BisectRightAsLeft(a, x) == BisectLeftFrom(a, x, 0, Len(a))
bisect_right(a, x) == BisectRightFrom(a, x, 0, Len(a))

BisectLeftAsRight(a, x) == BisectRightFrom(a, x, 0, Len(a))
bisect_left(a, x) == BisectLeftFrom(a, x, 0, Len(a))

(***************************************************************************)
(* SampleCNVs.merge_overlapping_cnvs.  The three lists are passed and      *)
(* returned as the triple <<existStarts, existEnds, existCNs>>.            *)
(***************************************************************************)
\* the union span of the equal-state case
MergedStartNew(oldStart, newStart) == newStart
MergedStart(oldStart, newStart) == IF oldStart < newStart THEN oldStart ELSE newStart

MergedEndNew(oldEnd, newEnd) == newEnd
MergedEnd(oldEnd, newEnd) == IF oldEnd > newEnd THEN oldEnd ELSE newEnd

\* TRUE when the new event is the one truncated (reduce_new_event), FALSE when
\* the existing event is (reduce_old_event); the states differ
ReduceNewNewestWins(newStart, newEnd, newCN, oldStart, oldEnd, oldCN) == FALSE
ReduceNew(newStart, newEnd, newCN, oldStart, oldEnd, oldCN) ==
    IF newCN <= 2 /\ oldCN <= 2
    THEN oldCN < newCN
    ELSE IF newCN >= 2 /\ oldCN >= 2
         THEN oldCN > newCN
         ELSE oldEnd - oldStart < newEnd - newStart

RECURSIVE merge_overlapping_cnvs(_, _, _, _, _, _)

reduce_new_event(existStarts, existEnds, existCNs, newStart, newEnd, newCN, oldStart, oldEnd) ==
    LET outStart1 == newStart
        outEnd1 == oldStart
        outStart2 == oldEnd
        outEnd2 == newEnd
        r1 == IF outStart1 < outEnd1
              THEN merge_overlapping_cnvs(existStarts, existEnds, existCNs,
                                          outStart1, outEnd1, newCN)
              ELSE <<existStarts, existEnds, existCNs>>
    IN IF outStart2 < outEnd2
       THEN merge_overlapping_cnvs(r1[1], r1[2], r1[3], outStart2, outEnd2, newCN)
       ELSE r1

\* reduce_old_event's edit of the lists: the existing event at start_bisect is
\* deleted and its valid remainders are inserted there, the last one first
TruncateOldFirstPieceFirst(existStarts, existEnds, existCNs, start_bisect, outStart1, outEnd1, outStart2, outEnd2, outCN) ==
    LET s0 == ListPop(existStarts, start_bisect)
        e0 == ListPop(existEnds, start_bisect)
        c0 == ListPop(existCNs, start_bisect)
        s1 == IF outStart1 < outEnd1 THEN ListInsert(s0, start_bisect, outStart1) ELSE s0
        e1 == IF outStart1 < outEnd1 THEN ListInsert(e0, start_bisect, outEnd1) ELSE e0
        c1 == IF outStart1 < outEnd1 THEN ListInsert(c0, start_bisect, outCN) ELSE c0
        s2 == IF outStart2 < outEnd2 THEN ListInsert(s1, start_bisect, outStart2) ELSE s1
        e2 == IF outStart2 < outEnd2 THEN ListInsert(e1, start_bisect, outEnd2) ELSE e1
        c2 == IF outStart2 < outEnd2 THEN ListInsert(c1, start_bisect, outCN) ELSE c1
    IN <<s2, e2, c2>>
TruncateOld(existStarts, existEnds, existCNs, start_bisect, outStart1, outEnd1, outStart2, outEnd2, outCN) ==
    LET s0 == ListPop(existStarts, start_bisect)
        e0 == ListPop(existEnds, start_bisect)
        c0 == ListPop(existCNs, start_bisect)
        s1 == IF outStart2 < outEnd2 THEN ListInsert(s0, start_bisect, outStart2) ELSE s0
        e1 == IF outStart2 < outEnd2 THEN ListInsert(e0, start_bisect, outEnd2) ELSE e0
        c1 == IF outStart2 < outEnd2 THEN ListInsert(c0, start_bisect, outCN) ELSE c0
        s2 == IF outStart1 < outEnd1 THEN ListInsert(s1, start_bisect, outStart1) ELSE s1
        e2 == IF outStart1 < outEnd1 THEN ListInsert(e1, start_bisect, outEnd1) ELSE e1
        c2 == IF outStart1 < outEnd1 THEN ListInsert(c1, start_bisect, outCN) ELSE c1
    IN <<s2, e2, c2>>

reduce_old_event(existStarts, existEnds, existCNs, newStart, newEnd, newCN, oldStart, oldEnd, oldCN, start_bisect) ==
    LET outStart1 == oldStart
        outEnd1 == newStart
        outStart2 == newEnd
        outEnd2 == oldEnd
        outCN == oldCN
        r == TruncateOld(existStarts, existEnds, existCNs, start_bisect,
                         outStart1, outEnd1, outStart2, outEnd2, outCN)
    IN merge_overlapping_cnvs(r[1], r[2], r[3], newStart, newEnd, newCN)

merge_overlapping_cnvs(existStarts, existEnds, existCNs, newStart, newEnd, newCN) ==
    LET start_bisect == bisect_right(existEnds, newStart)
        end_bisect == bisect_left(existStarts, newEnd)
    IN IF start_bisect = end_bisect
       THEN <<ListInsert(existStarts, start_bisect, newStart),
              ListInsert(existEnds, start_bisect, newEnd),
              ListInsert(existCNs, start_bisect, newCN)>>
       ELSE LET oldStart == existStarts[start_bisect + 1]
                oldEnd == existEnds[start_bisect + 1]
                oldCN == existCNs[start_bisect + 1]
            IN IF oldCN = newCN
               THEN merge_overlapping_cnvs(ListPop(existStarts, start_bisect),
                                           ListPop(existEnds, start_bisect),
                                           ListPop(existCNs, start_bisect),
                                           MergedStart(oldStart, newStart),
                                           MergedEnd(oldEnd, newEnd), newCN)
               ELSE IF ReduceNew(newStart, newEnd, newCN, oldStart, oldEnd, oldCN)
                    THEN reduce_new_event(existStarts, existEnds, existCNs,
                                          newStart, newEnd, newCN, oldStart, oldEnd)
                    ELSE reduce_old_event(existStarts, existEnds, existCNs,
                                          newStart, newEnd, newCN,
                                          oldStart, oldEnd, oldCN, start_bisect)

\* the number of overlaps one merge_overlapping_cnvs call resolves, its
\* recursive calls included: every call that finds start_bisect # end_bisect
\* resolves the overlap with the existing event at start_bisect by a merge, by
\* reduce_new_event or by reduce_old_event; its calls follow the function's
RECURSIVE Resolutions(_, _, _, _, _, _)
Resolutions(existStarts, existEnds, existCNs, newStart, newEnd, newCN) ==
    LET start_bisect == bisect_right(existEnds, newStart)
        end_bisect == bisect_left(existStarts, newEnd)
    IN IF start_bisect = end_bisect
       THEN 0
       ELSE LET oldStart == existStarts[start_bisect + 1]
                oldEnd == existEnds[start_bisect + 1]
                oldCN == existCNs[start_bisect + 1]
            IN IF oldCN = newCN
               THEN 1 + Resolutions(ListPop(existStarts, start_bisect),
                                    ListPop(existEnds, start_bisect),
                                    ListPop(existCNs, start_bisect),
                                    MergedStart(oldStart, newStart),
                                    MergedEnd(oldEnd, newEnd), newCN)
               ELSE IF ReduceNew(newStart, newEnd, newCN, oldStart, oldEnd, oldCN)
                    THEN LET r1 == IF newStart < oldStart
                                   THEN merge_overlapping_cnvs(existStarts, existEnds, existCNs,
                                                               newStart, oldStart, newCN)
                                   ELSE <<existStarts, existEnds, existCNs>>
                         IN 1 + (IF newStart < oldStart
                                 THEN Resolutions(existStarts, existEnds, existCNs,
                                                  newStart, oldStart, newCN)
                                 ELSE 0)
                              + (IF oldEnd < newEnd
                                 THEN Resolutions(r1[1], r1[2], r1[3], oldEnd, newEnd, newCN)
                                 ELSE 0)
                    ELSE LET r == TruncateOld(existStarts, existEnds, existCNs, start_bisect,
                                              oldStart, newStart, newEnd, oldEnd, oldCN)
                         IN 1 + Resolutions(r[1], r[2], r[3], newStart, newEnd, newCN)

(***************************************************************************)
(* The record of the most recent call: its arguments, whether it raised,   *)
(* and the profile and arm table it was called on.                         *)
(***************************************************************************)
Snapshot == [starts |-> starts, ends |-> ends, cn_states |-> cn_states,
             len_seg |-> len_seg, is_chr_prefixed |-> is_chr_prefixed,
             ploidy |-> ploidy, arm_coords |-> arm_coords,
             gene_coords |-> gene_coords]

Call(op, chrom, start, end, cn, redo, raised) ==
    [op |-> op, chrom |-> chrom, start |-> start, end |-> end, cn |-> cn,
     redo |-> redo, raised |-> raised, pre |-> Snapshot]

(***************************************************************************)
(* SampleCNVs.add(chrom, start, end, cn)                                   *)
(***************************************************************************)
\* end <= start: the segment is not stored
RejectedNever(start, end) == FALSE
Rejected(start, end) == end <= start

add(chrom_arg, start, end, cn) ==
    LET chrom == StripChr(chrom_arg)
    IN /\ calls' = [calls EXCEPT !.add = @ + 1]
       /\ returned' = None
       /\ UNCHANGED <<ploidy, arm_coords, gene_coords, run>>
       /\ \/ /\ Rejected(start, end)
             /\ start = end
             /\ last' = Call("add", chrom_arg, start, end, cn, FALSE, "None")
             /\ UNCHANGED <<starts, ends, cn_states, len_seg, is_chr_prefixed, inserted>>
          \/ /\ Rejected(start, end)
             /\ start # end
             /\ last' = Call("add", chrom_arg, start, end, cn, FALSE, "TypeError")
             /\ UNCHANGED <<starts, ends, cn_states, len_seg, is_chr_prefixed, inserted>>
          \/ /\ ~Rejected(start, end)
             /\ chrom \notin DOMAIN len_seg
             /\ starts' = DictSet(starts, chrom, <<start>>)
             /\ ends' = DictSet(ends, chrom, <<end>>)
             /\ cn_states' = DictSet(cn_states, chrom, <<cn>>)
             /\ len_seg' = DictSet(len_seg, chrom, 1)
             /\ is_chr_prefixed' = IF is_chr_prefixed = None
                                   THEN Some(StartsWithChr(chrom))
                                   ELSE is_chr_prefixed
             /\ inserted' = [inserted EXCEPT ![chrom] = @ \cup {<<start, end, cn>>}]
             /\ last' = Call("add", chrom_arg, start, end, cn, FALSE, "None")
          \/ /\ ~Rejected(start, end)
             /\ chrom \in DOMAIN len_seg
             /\ LET r == merge_overlapping_cnvs(starts[chrom], ends[chrom],
                                                cn_states[chrom], start, end, cn)
                IN /\ starts' = DictSet(starts, chrom, r[1])
                   /\ ends' = DictSet(ends, chrom, r[2])
                   /\ cn_states' = DictSet(cn_states, chrom, r[3])
                   /\ len_seg' = DictSet(len_seg, chrom, Cardinality(DOMAIN cn_states))
             /\ inserted' = [inserted EXCEPT ![chrom] = @ \cup {<<start, end, cn>>}]
             /\ last' = Call("add", chrom_arg, start, end, cn, FALSE, "None")
             /\ UNCHANGED is_chr_prefixed

(***************************************************************************)
(* Chromosome: the arm coordinates of one chromosome.                      *)
(***************************************************************************)
\* Chromosome.__init__
Chromosome(chrom) ==
    [chrom |-> chrom, p_start |-> None, p_end |-> None, q_start |-> None,
     q_end |-> None, q_length |-> 0, p_length |-> 0]

\* Chromosome.add: the object after the assignments of the call
Chromosome_add(self, start, end, arm) ==
    IF arm = "p"
    THEN [self EXCEPT !.p_start = Some(start), !.p_end = Some(end),
                      !.p_length = end - start]
    ELSE [self EXCEPT !.q_start = Some(start), !.q_end = Some(end),
                      !.q_length = end - start]

\* the arm tables load_chrom_arm hands to generate_cnv_files, keyed by the
\* contig name without its chr prefix
BothArms(chrom, p_start, p_end, q_start, q_end) ==
    Chromosome_add(Chromosome_add(Chromosome(chrom), p_start, p_end, "p"),
                   q_start, q_end, "q")

ArmTables ==
    { \* two chromosomes, both arms; a gap between the arms of chromosome 2
      [c \in {"1", "2"} |-> IF c = "1" THEN BothArms("1", 0, 2, 2, 4)
                                       ELSE BothArms("2", 0, 1, 2, 4)],
      \* chromosome 1 alone, its arms shorter than the segments can be
      [c \in {"1"} |-> BothArms("1", 1, 2, 2, 3)],
      \* chromosome 1 with no q arm
      [c \in {"1"} |-> Chromosome_add(Chromosome("1"), 0, 2, "p")],
      \* chromosome 1 with no p arm, chromosome 2 with both
      [c \in {"1", "2"} |-> IF c = "1" THEN Chromosome_add(Chromosome("1"), 2, 4, "q")
                                       ELSE BothArms("2", 0, 2, 2, 4)] }

\* more arm tables, for the classification
MoreArmTables ==
    { \* chromosome 1 with no q arm, chromosome 2 with both
      [c \in {"1", "2"} |-> IF c = "1" THEN Chromosome_add(Chromosome("1"), 0, 2, "p")
                                       ELSE BothArms("2", 0, 2, 2, 4)],
      \* chromosome 1 with a p arm line whose start equals its end
      [c \in {"1"} |-> BothArms("1", 2, 2, 2, 4)] }

(***************************************************************************)
(* SampleCNVs.adjust_ploidy(arm_coords, sample_name, redo)                 *)
(***************************************************************************)
\* coordinate of the placeholder window of an arm that is not set
PlaceholderCoord == -100000
\* length given to the placeholder window
PlaceholderLength == 1

\* the chromosome after the placeholder substitution
WithPlaceholders(chromosome) ==
    LET c1 == IF chromosome.p_start = None
              THEN [chromosome EXCEPT !.p_start = Some(PlaceholderCoord),
                                      !.p_end = Some(PlaceholderCoord),
                                      !.p_length = PlaceholderLength]
              ELSE chromosome
    IN IF c1.q_start = None
       THEN [c1 EXCEPT !.q_start = Some(PlaceholderCoord),
                       !.q_end = Some(PlaceholderCoord),
                       !.q_length = PlaceholderLength]
       ELSE c1

\* the key of the profile a chromosome of the arm table is looked up under
AddChr(name) == IF name = "1" THEN "chr1" ELSE IF name = "2" THEN "chr2" ELSE name
ChromName(name, prefixed) ==
    IF prefixed = Some(TRUE) /\ ~StartsWithChr(name)
    THEN AddChr(name)
    ELSE IF prefixed # Some(TRUE) /\ StartsWithChr(name)
         THEN StripChr(name)
         ELSE name

\* the bases one segment adds to ploidy_cov[cn]: its overlap with the p window
\* plus its overlap with the q window
SegmentBases(chromosome, start, end) ==
    IF end < Val(chromosome.p_start) \/ start > Val(chromosome.q_end)
    THEN 0
    ELSE (IF start < Val(chromosome.p_end)
          THEN (IF end < Val(chromosome.p_end) THEN end ELSE Val(chromosome.p_end))
               - (IF start > Val(chromosome.p_start) THEN start ELSE Val(chromosome.p_start))
          ELSE 0)
         + (IF end > Val(chromosome.q_start)
            THEN (IF end < Val(chromosome.q_end) THEN end ELSE Val(chromosome.q_end))
                 - (IF start > Val(chromosome.q_start) THEN start ELSE Val(chromosome.q_start))
            ELSE 0)

\* the sum of cn * bases over the segments i..Len of one chromosome
RECURSIVE ChromWeighted(_, _, _, _, _)
ChromWeighted(chromosome, S, E, C, i) ==
    IF i > Len(S)
    THEN 0
    ELSE C[i] * SegmentBases(chromosome, S[i], E[i])
         + ChromWeighted(chromosome, S, E, C, i + 1)

\* x: the sum of cn * bases over the chromosomes of the arm table that have segments
RECURSIVE WeightedBases(_, _, _, _, _, _)
WeightedBases(arms, keys, S, E, C, prefixed) ==
    IF keys = {}
    THEN 0
    ELSE LET k == CHOOSE c \in keys : TRUE
             name == ChromName(arms[k].chrom, prefixed)
         IN (IF name \in DOMAIN S
             THEN ChromWeighted(arms[k], S[name], E[name], C[name], 1)
             ELSE 0)
            + WeightedBases(arms, keys \ {k}, S, E, C, prefixed)

\* genome_size: the sum of p_length + q_length over the arm table
RECURSIVE GenomeSize(_, _)
GenomeSize(arms, keys) ==
    IF keys = {}
    THEN 0
    ELSE LET k == CHOOSE c \in keys : TRUE
         IN arms[k].p_length + arms[k].q_length + GenomeSize(arms, keys \ {k})

\* round(n / d) of Python 3, d > 0: to the nearest integer, a half to the even one
Round(n, d) ==
    LET q == n \div d
        r == n % d
    IN IF 2 * r < d THEN q
       ELSE IF 2 * r > d THEN q + 1
       ELSE IF q % 2 = 0 THEN q ELSE q + 1

\* av_ploidy for the arm table after the placeholder substitution
AvPloidy(arms, S, E, C, prefixed) ==
    Round(WeightedBases(arms, DOMAIN arms, S, E, C, prefixed),
          GenomeSize(arms, DOMAIN arms))

\* ploidy_dif
PloidyDifNoBaseline(av_ploidy) == av_ploidy
PloidyDif(av_ploidy) == av_ploidy - 2

\* new_cns
ShiftedCNs(C, ploidy_dif) ==
    [chrom \in DOMAIN C |-> [i \in 1..Len(C[chrom]) |-> C[chrom][i] - ploidy_dif]]

\* the call returns at once: a ploidy is cached and redo is not set
AlreadyAdjustedNever(cached, redo) == FALSE
AlreadyAdjusted(cached, redo) == cached # None /\ ~redo

\* the ploidy that is refused with a TypeError
InvalidPloidyBelowZero(av_ploidy) == av_ploidy < 0
InvalidPloidy(av_ploidy) == av_ploidy < 1

\* the arm tables of ArmTables have a genome size above 0, so the division is defined
adjust_ploidy(redo) ==
    /\ calls' = [calls EXCEPT !.adjust_ploidy = @ + 1]
    /\ returned' = None
    /\ UNCHANGED <<starts, ends, len_seg, is_chr_prefixed, gene_coords, inserted, run>>
    /\ \/ /\ AlreadyAdjusted(ploidy, redo)
          /\ last' = Call("adjust_ploidy", "", 0, 0, 0, redo, "None")
          /\ UNCHANGED <<cn_states, ploidy, arm_coords>>
       \/ /\ ~AlreadyAdjusted(ploidy, redo)
          /\ LET arms == [c \in DOMAIN arm_coords |-> WithPlaceholders(arm_coords[c])]
                 av_ploidy == AvPloidy(arms, starts, ends, cn_states, is_chr_prefixed)
             IN /\ arm_coords' = arms
                /\ \/ /\ InvalidPloidy(av_ploidy)
                      /\ last' = Call("adjust_ploidy", "", 0, 0, 0, redo, "TypeError")
                      /\ UNCHANGED <<cn_states, ploidy>>
                   \/ /\ ~InvalidPloidy(av_ploidy)
                      /\ cn_states' = IF av_ploidy # 2
                                      THEN ShiftedCNs(cn_states, PloidyDif(av_ploidy))
                                      ELSE cn_states
                      /\ ploidy' = Some(av_ploidy)
                      /\ last' = Call("adjust_ploidy", "", 0, 0, 0, redo, "None")

(***************************************************************************)
(* SampleCNVs.overlap_chrom(chromosome, threshold)                         *)
(***************************************************************************)
\* a threshold is the fraction <<numerator, denominator>>; 4/5 is the default 0.8
DefaultThreshold == <<4, 5>>
Thresholds == {DefaultThreshold, <<1, 2>>, <<2, 5>>}

\* what a call hands back: the exception it raised, or the value it returned
Raise(exception) == [raised |-> exception, value |-> None]
Return(value) == [raised |-> "None", value |-> value]

\* the p branch without its tests
OlapPUntested(chromosome, start, end) ==
    (IF end < Val(chromosome.p_end) THEN end ELSE Val(chromosome.p_end))
    - (IF start > Val(chromosome.p_start) THEN start ELSE Val(chromosome.p_start))

\* olap_end - olap_start of one segment in the p branch, 0 when the segment is
\* skipped or the branch is not taken
OlapP(chromosome, start, end) ==
    IF end < Val(chromosome.p_start) \/ start > Val(chromosome.q_end)
    THEN 0
    ELSE IF start < Val(chromosome.p_end)
         THEN (IF end < Val(chromosome.p_end) THEN end ELSE Val(chromosome.p_end))
              - (IF start > Val(chromosome.p_start) THEN start ELSE Val(chromosome.p_start))
         ELSE 0

\* olap_end - olap_start of one segment in the q branch
OlapQ(chromosome, start, end) ==
    IF end < Val(chromosome.p_start) \/ start > Val(chromosome.q_end)
    THEN 0
    ELSE IF end > Val(chromosome.q_start)
         THEN (IF end < Val(chromosome.q_end) THEN end ELSE Val(chromosome.q_end))
              - (IF start > Val(chromosome.q_start) THEN start ELSE Val(chromosome.q_start))
         ELSE 0

\* the copy-number states added to homdel_sum, del_sum, gain_sum and amp_sum
Counted(sum, cn) ==
    CASE sum = "del" -> cn < 2
      [] sum = "homdel" -> cn < 2 /\ cn < 1
      [] sum = "gain" -> cn > 2
      [] sum = "amp" -> cn > 2 /\ cn > 3

\* sum[arm] after the segments i..Len of the chromosome
RECURSIVE ArmSum(_, _, _, _, _, _, _)
ArmSum(sum, arm, chromosome, S, E, C, i) ==
    IF i > Len(S)
    THEN 0
    ELSE (IF Counted(sum, C[i])
          THEN (IF arm = "p" THEN OlapP(chromosome, S[i], E[i])
                             ELSE OlapQ(chromosome, S[i], E[i]))
          ELSE 0)
         + ArmSum(sum, arm, chromosome, S, E, C, i + 1)

\* homdel_sum, del_sum, gain_sum or amp_sum after the loop: every length added
\* to "p" or to "q" is added to "Chrom" too
Sums(sum, chromosome, S, E, C) ==
    LET p == ArmSum(sum, "p", chromosome, S, E, C, 1)
        q == ArmSum(sum, "q", chromosome, S, E, C, 1)
    IN [p |-> p, q |-> q, Chrom |-> p + q]

\* sum / length > threshold, length above 0
ExceedsOrEquals(sum, length, threshold) == sum * threshold[2] >= threshold[1] * length
Exceeds(sum, length, threshold) == sum * threshold[2] > threshold[1] * length

\* key not in events
NotInAlways(key, events) == TRUE
NotIn(key, events) == key \notin DOMAIN events

\* the key chrom_name + arm of the events dictionary
Key(chrom_name, arm) == <<chrom_name, arm>>

\* one family of labels written into events: amp_sum and gain_sum with AMP and
\* GAIN, then homdel_sum and del_sum with HOMDEL and HETLOSS.  A division by a
\* length of 0 raises ZeroDivisionError at the first test that reaches it.
Family(events, name, high_sum, low_sum, high, low, chromosome, threshold) ==
    LET p_length == chromosome.p_length
        q_length == chromosome.q_length
    IN IF p_length + q_length = 0
       THEN Raise("ZeroDivisionError")
       ELSE IF Exceeds(high_sum.Chrom, p_length + q_length, threshold)
       THEN Return(DictSet(events, Key(name, "Chrom"), high))
       ELSE IF p_length = 0
       THEN Raise("ZeroDivisionError")
       ELSE IF ~Exceeds(high_sum.p, p_length, threshold) /\ q_length = 0
       THEN Raise("ZeroDivisionError")
       ELSE LET e1 == IF Exceeds(high_sum.p, p_length, threshold)
                      THEN DictSet(events, Key(name, "p"), high)
                      ELSE IF Exceeds(high_sum.q, q_length, threshold)
                           THEN DictSet(events, Key(name, "q"), high)
                           ELSE events
            IN IF NotIn(Key(name, "Chrom"), e1)
                  /\ Exceeds(low_sum.Chrom, p_length + q_length, threshold)
               THEN Return(DictSet(e1, Key(name, "Chrom"), low))
               ELSE LET e2 == IF NotIn(Key(name, "p"), e1)
                                 /\ Exceeds(low_sum.p, p_length, threshold)
                              THEN DictSet(e1, Key(name, "p"), low)
                              ELSE e1
                    IN IF NotIn(Key(name, "q"), e2) /\ q_length = 0
                       THEN Raise("ZeroDivisionError")
                       ELSE IF NotIn(Key(name, "q"), e2)
                               /\ Exceeds(low_sum.q, q_length, threshold)
                            THEN Return(DictSet(e2, Key(name, "q"), low))
                            ELSE Return(e2)

\* what overlap_chrom hands back for a chromosome whose arms are all set
OverlapChromEvents(chromosome, threshold, S, E, C, prefixed) ==
    LET name == ChromName(chromosome.chrom, prefixed)
    IN IF name \notin DOMAIN S
       THEN Return(EmptyDict)
       ELSE LET gains == Family(EmptyDict, name,
                                Sums("amp", chromosome, S[name], E[name], C[name]),
                                Sums("gain", chromosome, S[name], E[name], C[name]),
                                "AMP", "GAIN", chromosome, threshold)
            IN IF gains.raised # "None"
               THEN gains
               ELSE Family(gains.value, name,
                           Sums("homdel", chromosome, S[name], E[name], C[name]),
                           Sums("del", chromosome, S[name], E[name], C[name]),
                           "HOMDEL", "HETLOSS", chromosome, threshold)

\* the call on the chromosome chrom of the arm table; it changes nothing
overlap_chrom(chrom, threshold) ==
    LET r == OverlapChromEvents(arm_coords[chrom], threshold, starts, ends,
                                cn_states, is_chr_prefixed)
    IN /\ returned' = IF r.raised = "None" THEN Some(r.value) ELSE None
       /\ last' = [threshold |-> threshold]
                  @@ Call("overlap_chrom", chrom, 0, 0, 0, FALSE, r.raised)
       /\ UNCHANGED <<starts, ends, cn_states, len_seg, is_chr_prefixed, ploidy,
                      arm_coords, gene_coords, inserted, calls, run>>

(***************************************************************************)
(* get_overlap_genes(chrom, start, end, copy_num, gene_cords)              *)
(***************************************************************************)
\* Gene.__init__
Gene(chrom, start, end, name) ==
    [chrom |-> chrom, start |-> start, end |-> end, name |-> name]

\* the gene tables load_gene_coords_bed hands over, keyed by the contig name
\* without its chr prefix; the genes of a contig in the order of the file
PipelineGenes ==
    [c \in {"1"} |-> <<Gene("1", 1, 3, "g1"), Gene("1", 2, 4, "g2")>>]

GeneTables ==
    { PipelineGenes,
      [c \in {"1", "2"} |-> IF c = "1" THEN <<Gene("1", 0, 1, "g1")>>
                                       ELSE <<Gene("2", 1, 2, "g3"), Gene("2", 3, 4, "g4"),
                                              Gene("2", 0, 4, "g5")>>],
      [c \in {"2"} |-> <<Gene("2", 1, 4, "g3")>>] }

\* the segment and the gene overlap
Intersects(start, end, gene_info) == start < gene_info.end /\ end > gene_info.start

\* the segment covers the gene only in part
PartialNever(start, end, gene_info) == FALSE
Partial(start, end, gene_info) == start > gene_info.start \/ end < gene_info.end

\* the loop over the genes i..Len of the contig
RECURSIVE ScanGenes(_, _, _, _, _, _)
ScanGenes(genes_on_chrom, i, start, end, copy_num, olap_genes) ==
    IF i > Len(genes_on_chrom)
    THEN Return(olap_genes)
    ELSE LET gene_info == genes_on_chrom[i]
         IN IF ~Intersects(start, end, gene_info)
            THEN ScanGenes(genes_on_chrom, i + 1, start, end, copy_num, olap_genes)
            ELSE IF copy_num < 2
            THEN ScanGenes(genes_on_chrom, i + 1, start, end, copy_num,
                           Append(olap_genes, gene_info.name))
            ELSE IF copy_num > 2
            THEN IF Partial(start, end, gene_info)
                 THEN ScanGenes(genes_on_chrom, i + 1, start, end, copy_num, olap_genes)
                 ELSE ScanGenes(genes_on_chrom, i + 1, start, end, copy_num,
                                Append(olap_genes, gene_info.name))
            ELSE Raise("NotImplementedError")

\* what get_overlap_genes hands back
OverlapGenes(chrom_arg, start, end, copy_num, gene_cords) ==
    LET first_key == CHOOSE k \in DOMAIN gene_cords : TRUE
        chrom == ChromName(chrom_arg, Some(StartsWithChr(first_key)))
    IN IF chrom \notin DOMAIN gene_cords
       THEN Return(<<>>)
       ELSE ScanGenes(gene_cords[chrom], 1, start, end, copy_num, <<>>)

\* the call; it changes nothing
get_overlap_genes(chrom, start, end, copy_num) ==
    LET r == OverlapGenes(chrom, start, end, copy_num, gene_coords)
    IN /\ returned' = IF r.raised = "None" THEN Some(r.value) ELSE None
       /\ last' = Call("get_overlap_genes", chrom, start, end, copy_num, FALSE, r.raised)
       /\ UNCHANGED <<starts, ends, cn_states, len_seg, is_chr_prefixed, ploidy,
                      arm_coords, gene_coords, inserted, calls, run>>

(***************************************************************************)
(* Specification SpecAdd: a new SampleCNVs and add calls on one chromosome *)
(***************************************************************************)
NoArms == [c \in {} |-> <<>>]
NoGenes == [c \in {} |-> <<>>]

InitProfile ==
    /\ starts = EmptyDict
    /\ ends = EmptyDict
    /\ cn_states = EmptyDict
    /\ len_seg = EmptyDict
    /\ is_chr_prefixed = None
    /\ ploidy = None
    /\ returned = None
    /\ inserted = [c \in Chroms |-> {}]
    /\ calls = [add |-> 0, adjust_ploidy |-> 0]

\* generate_cnv_files is not running
NoRun ==
    /\ sample_cnvs = <<>>
    /\ pc = [phase |-> "idle", i |-> 0]
    /\ focal_cn_thresh = 30000000
    /\ sample_ids = {}
    /\ out_cnv_gene = {}
    /\ out_cnv_arm = {}
    /\ log = <<>>
    /\ annotated = {}

InitAdd ==
    /\ InitProfile
    /\ NoRun
    /\ arm_coords = NoArms
    /\ gene_coords = NoGenes
    /\ last = [op |-> "init", chrom |-> "1", start |-> 0, end |-> 0, cn |-> 0,
               redo |-> FALSE, raised |-> "None",
               pre |-> [starts |-> EmptyDict, ends |-> EmptyDict,
                        cn_states |-> EmptyDict, len_seg |-> EmptyDict,
                        is_chr_prefixed |-> None, ploidy |-> None,
                        arm_coords |-> NoArms, gene_coords |-> NoGenes]]

AddOnOneChromosome ==
    \E start \in Positions, end \in Positions, cn \in CNs :
        /\ calls.add < MaxInserts
        /\ add("1", start, end, cn)

NextAdd == AddOnOneChromosome

SpecAdd == InitAdd /\ [][NextAdd]_vars

(***************************************************************************)
(* Specification Spec: a new SampleCNVs, an arm table as loaded, add calls *)
(* on any chromosome and then adjust_ploidy calls, forced or not.  As in   *)
(* generate_cnv_files, every segment is added before the profile is        *)
(* normalised.                                                             *)
(***************************************************************************)
Init ==
    /\ InitProfile
    /\ NoRun
    /\ arm_coords \in ArmTables
    /\ gene_coords = PipelineGenes
    /\ last = [op |-> "init", chrom |-> "", start |-> 0, end |-> 0, cn |-> 0,
               redo |-> FALSE, raised |-> "None",
               pre |-> [starts |-> EmptyDict, ends |-> EmptyDict,
                        cn_states |-> EmptyDict, len_seg |-> EmptyDict,
                        is_chr_prefixed |-> None, ploidy |-> None,
                        arm_coords |-> arm_coords, gene_coords |-> gene_coords]]

AddSegment ==
    \E chrom_arg \in ChromNames, start \in Positions, end \in Positions, cn \in CNs :
        /\ calls.add < MaxLines
        /\ calls.adjust_ploidy = 0
        /\ add(chrom_arg, start, end, cn)

AdjustPloidy ==
    \E redo \in BOOLEAN :
        /\ calls.adjust_ploidy < MaxAdjust
        /\ adjust_ploidy(redo)

Next == AddSegment \/ AdjustPloidy

Spec == Init /\ [][Next]_vars

(***************************************************************************)
(* Specification SpecArms: one sample of generate_cnv_files up to its arm  *)
(* classification.  The segment lines are added (a line with start = end   *)
(* is skipped and a line with end < start ends the run, so the lines added *)
(* have start < end), the sample is normalised once, and overlap_chrom is  *)
(* called on the chromosomes of the arm table.                             *)
(***************************************************************************)
InitArms ==
    /\ InitProfile
    /\ NoRun
    /\ arm_coords \in ArmTables \cup MoreArmTables
    /\ gene_coords = PipelineGenes
    /\ last = [op |-> "init", chrom |-> "", start |-> 0, end |-> 0, cn |-> 0,
               redo |-> FALSE, raised |-> "None",
               pre |-> [starts |-> EmptyDict, ends |-> EmptyDict,
                        cn_states |-> EmptyDict, len_seg |-> EmptyDict,
                        is_chr_prefixed |-> None, ploidy |-> None,
                        arm_coords |-> arm_coords, gene_coords |-> gene_coords]]

AddLine ==
    \E chrom \in Chroms, start \in Positions, end \in Positions, cn \in CNs :
        /\ start < end
        /\ calls.add < MaxLines
        /\ calls.adjust_ploidy = 0
        /\ add(chrom, start, end, cn)

Normalise ==
    /\ calls.adjust_ploidy = 0
    /\ adjust_ploidy(FALSE)

\* overlap_chrom is reached only when adjust_ploidy has returned, so every arm
\* of the table is set or has its placeholder
Classify ==
    \E chrom \in DOMAIN arm_coords, threshold \in Thresholds :
        /\ ploidy # None
        /\ overlap_chrom(chrom, threshold)

NextArms == AddLine \/ Normalise \/ Classify

SpecArms == InitArms /\ [][NextArms]_vars

(***************************************************************************)
(* Specification SpecGenes: get_overlap_genes on a gene table as loaded,   *)
(* for any contig name, segment and copy number.                           *)
(***************************************************************************)
InitGenes ==
    /\ InitProfile
    /\ NoRun
    /\ arm_coords = NoArms
    /\ gene_coords \in GeneTables
    /\ last = [op |-> "init", chrom |-> "", start |-> 0, end |-> 0, cn |-> 0,
               redo |-> FALSE, raised |-> "None",
               pre |-> [starts |-> EmptyDict, ends |-> EmptyDict,
                        cn_states |-> EmptyDict, len_seg |-> EmptyDict,
                        is_chr_prefixed |-> None, ploidy |-> None,
                        arm_coords |-> NoArms, gene_coords |-> gene_coords]]

GetOverlapGenes ==
    \E chrom \in ChromNames, start \in Positions, end \in Positions, cn \in CNs :
        get_overlap_genes(chrom, start, end, cn)

NextGenes == GetOverlapGenes

SpecGenes == InitGenes /\ [][NextGenes]_vars

(***************************************************************************)
(* Specification SpecChrom: load_chrom_arm filling one Chromosome.  Each   *)
(* line of the arm file is a Chromosome.add call; an exception of add is   *)
(* not caught and ends the load, so add is called only while no call has   *)
(* raised.                                                                 *)
(***************************************************************************)
\* the arm labels of the lines of the arm file
ArmLabels == {"p", "q", "x"}

\* the arm already has coordinates
ArmAssigned(self, arm) ==
    IF arm = "p"
    THEN self.p_start # None \/ self.p_end # None
    ELSE self.q_start # None \/ self.q_end # None

\* the overlap test that follows the assignments: the q arm starts before the
\* end of the p arm
ArmsOverlapNever(self) == FALSE
ArmsOverlap(self) == self.p_end # None /\ self.q_start # None /\ Val(self.p_end) > Val(self.q_start)

\* the exception Chromosome.add raises, "None" when it returns
Chromosome_add_raised(self, start, end, arm) ==
    IF arm \notin {"p", "q"}
    THEN "AttributeError"
    ELSE IF ArmAssigned(self, arm)
         THEN "AttributeError"
         ELSE IF ArmsOverlap(Chromosome_add(self, start, end, arm))
              THEN "AttributeError"
              ELSE "None"

\* the call on the Chromosome of the arm table: the assignments are made
\* before the overlap test, so they stay when that test raises
Chromosome_add_call(chrom, start, end, arm) ==
    LET self == arm_coords[chrom]
    IN /\ arm_coords' = [arm_coords EXCEPT ![chrom] =
                            IF arm \in {"p", "q"} /\ ~ArmAssigned(self, arm)
                            THEN Chromosome_add(self, start, end, arm)
                            ELSE self]
       /\ last' = [arm |-> arm]
                  @@ Call("Chromosome.add", chrom, start, end, 0, FALSE,
                          Chromosome_add_raised(self, start, end, arm))
       /\ returned' = None
       /\ UNCHANGED <<starts, ends, cn_states, len_seg, is_chr_prefixed, ploidy,
                      gene_coords, inserted, calls, run>>

InitChrom ==
    /\ InitProfile
    /\ NoRun
    /\ arm_coords = [c \in {"1"} |-> Chromosome("1")]
    /\ gene_coords = NoGenes
    /\ last = [op |-> "init", chrom |-> "", start |-> 0, end |-> 0, cn |-> 0,
               redo |-> FALSE, raised |-> "None",
               pre |-> [starts |-> EmptyDict, ends |-> EmptyDict,
                        cn_states |-> EmptyDict, len_seg |-> EmptyDict,
                        is_chr_prefixed |-> None, ploidy |-> None,
                        arm_coords |-> arm_coords, gene_coords |-> NoGenes]]

LoadArmLine ==
    \E start \in Positions, end \in Positions, arm \in ArmLabels :
        /\ last.raised = "None"
        /\ Chromosome_add_call("1", start, end, arm)

NextChrom == LoadArmLine

SpecChrom == InitChrom /\ [][NextChrom]_vars

(***************************************************************************)
(* generate_cnv_files: one SampleCNVs per sample of the segments file.     *)
(* The methods of SampleCNVs are applied to the object of a sample, given  *)
(* as the record of its fields.                                            *)
(***************************************************************************)
\* SampleCNVs.__init__: the fields are created for the instance
SampleCNVs ==
    [starts |-> EmptyDict, ends |-> EmptyDict, cn_states |-> EmptyDict,
     len_seg |-> EmptyDict, is_chr_prefixed |-> None, ploidy |-> None]

\* self after self.add(chrom, start, end, cn), for start < end
SampleCNVs_add(self, chrom_arg, start, end, cn) ==
    LET chrom == StripChr(chrom_arg)
    IN IF chrom \notin DOMAIN self.len_seg
       THEN [self EXCEPT !.starts = DictSet(@, chrom, <<start>>),
                         !.ends = DictSet(@, chrom, <<end>>),
                         !.cn_states = DictSet(@, chrom, <<cn>>),
                         !.len_seg = DictSet(@, chrom, 1),
                         !.is_chr_prefixed = IF @ = None
                                             THEN Some(StartsWithChr(chrom))
                                             ELSE @]
       ELSE LET r == merge_overlapping_cnvs(self.starts[chrom], self.ends[chrom],
                                            self.cn_states[chrom], start, end, cn)
            IN [self EXCEPT !.starts = DictSet(@, chrom, r[1]),
                            !.ends = DictSet(@, chrom, r[2]),
                            !.cn_states = DictSet(@, chrom, r[3]),
                            !.len_seg = DictSet(@, chrom,
                                                Cardinality(DOMAIN self.cn_states))]

\* self.adjust_ploidy(arm_table, sample): the exception raised, self and the
\* arm table afterwards
SampleCNVs_adjust_ploidy(self, arm_table) ==
    IF AlreadyAdjusted(self.ploidy, FALSE)
    THEN [raised |-> "None", self |-> self, arm_coords |-> arm_table]
    ELSE LET arms == [c \in DOMAIN arm_table |-> WithPlaceholders(arm_table[c])]
             av_ploidy == AvPloidy(arms, self.starts, self.ends, self.cn_states,
                                   self.is_chr_prefixed)
         IN IF InvalidPloidy(av_ploidy)
            THEN [raised |-> "TypeError", self |-> self, arm_coords |-> arms]
            ELSE [raised |-> "None",
                  self |-> [self EXCEPT !.cn_states = IF av_ploidy # 2
                                                      THEN ShiftedCNs(@, PloidyDif(av_ploidy))
                                                      ELSE @,
                                        !.ploidy = Some(av_ploidy)],
                  arm_coords |-> arms]

\* the dictionary sample_cnvs keeps its keys in the order they were added: a
\* sequence of [sample, cnvs]
Known(samples, sample) == \E i \in 1..Len(samples) : samples[i].sample = sample
Index(samples, sample) == CHOOSE i \in 1..Len(samples) : samples[i].sample = sample

\* lines 1151-1152: a SampleCNVs for a sample that has none
WithSample(samples, sample) ==
    IF Known(samples, sample)
    THEN samples
    ELSE Append(samples, [sample |-> sample, cnvs |-> SampleCNVs])

\* a method call changes the object it is called on and no other
StoreInAll(samples, i, cnvs) == [j \in 1..Len(samples) |-> [samples[j] EXCEPT !.cnvs = cnvs]]
Store(samples, i, cnvs) == [samples EXCEPT ![i].cnvs = cnvs]

\* the samples, and the lines of the segments file: at most MaxSegLines lines
\* of a sample, a chromosome, a span and an absolute copy number; the span
\* <<3, 3>> is a segment of length 0
MaxSegLines == 3
Samples == {"A", "B"}
SegSpans == {<<0, 2>>, <<1, 3>>, <<2, 4>>, <<3, 3>>}
SegCNs == {1, 2, 4}

\* the values of focal_cn_thresh: the default and one within the positions
FocalThresholds == {2, 30000000}

\* the arm tables of the runs: chromosome 1 with both arms, and chromosome 1
\* with a p arm line whose start equals its end
PipelineArmTables ==
    { [c \in {"1"} |-> BothArms("1", 0, 2, 2, 4)],
      [c \in {"1"} |-> BothArms("1", 2, 2, 2, 4)] }

\* one entry of the record of calls
Entry(op, sample, chrom, start, end, cn, raised, cnvs) ==
    [op |-> op, sample |-> sample, chrom |-> chrom, start |-> start, end |-> end,
     cn |-> cn, raised |-> raised, cnvs |-> cnvs]

\* lines 1147-1175: one line of the segments file
ReadLineInAnyPhase(position) == position.phase \in {"cnv_segs", "genes"}
ReadLine(position) == position.phase = "cnv_segs"

ReadSegment(sample, chrom, start, end, cn) ==
    LET samples == WithSample(sample_cnvs, sample)
        i == Index(samples, sample)
        cnvs == IF start = end
                THEN samples[i].cnvs
                ELSE SampleCNVs_add(samples[i].cnvs, chrom, start, end, cn)
    IN /\ sample_cnvs' = Store(samples, i, cnvs)
       /\ log' = Append(log, Entry(IF start = end THEN "skip" ELSE "add",
                                   sample, chrom, start, end, cn, "None", cnvs))

\* the position after sample i of n in a phase
After(phase) ==
    CASE phase = "adjust_ploidy" -> "genes"
      [] phase = "genes" -> "arms"
      [] phase = "arms" -> "done"

NextSample(position, n) ==
    IF position.i < n
    THEN [position EXCEPT !.i = @ + 1]
    ELSE [phase |-> After(position.phase), i |-> 1]

\* lines 1183-1184: adjust_ploidy of one sample, on the arm table all share
AdjustSample(i) ==
    LET r == SampleCNVs_adjust_ploidy(sample_cnvs[i].cnvs, arm_coords)
    IN /\ sample_cnvs' = Store(sample_cnvs, i, r.self)
       /\ arm_coords' = r.arm_coords
       /\ log' = Append(log, Entry("adjust_ploidy", sample_cnvs[i].sample,
                                   "", 0, 0, 0, r.raised, r.self))

\* lines 1205-1216: the segments that are looked up and the event they give
FocalOrEqual(start, end, thresh) == end - start <= thresh
Focal(start, end, thresh) == end - start < thresh

EventType(cn_state) ==
    IF cn_state > 3 THEN "AMP"
    ELSE IF cn_state > 2 THEN "GAIN"
    ELSE IF cn_state < 1 THEN "HOMDEL"
    ELSE IF cn_state < 2 THEN "HETLOSS"
    ELSE "TypeError"

\* the (chrom, start, end, cn_state) of cnvs that get_overlap_genes is called with
PassedSegments(cnvs, thresh) ==
    UNION {{<<chrom, cnvs.starts[chrom][i], cnvs.ends[chrom][i], cnvs.cn_states[chrom][i]>> :
              i \in {j \in 1..Len(cnvs.cn_states[chrom]) :
                        /\ cnvs.cn_states[chrom][j] # 2
                        /\ Focal(cnvs.starts[chrom][j], cnvs.ends[chrom][j], thresh)}} :
           chrom \in DOMAIN cnvs.cn_states}

\* the lines written to out_cnv_gene for one sample, without their order;
\* subset_ids is None
GeneLines(sample, cnvs, thresh, genes) ==
    UNION {LET olap_genes == OverlapGenes(seg[1], seg[2], seg[3], seg[4], genes).value
           IN {<<sample, olap_genes[g], EventType(seg[4])>> : g \in 1..Len(olap_genes)} :
           seg \in PassedSegments(cnvs, thresh)}

\* the exception of the loop over the segments of one sample, "None" without
GeneRaised(cnvs, thresh, genes) ==
    IF \E seg \in PassedSegments(cnvs, thresh) : EventType(seg[4]) = "TypeError"
    THEN "TypeError"
    ELSE IF \E seg \in PassedSegments(cnvs, thresh) :
               OverlapGenes(seg[1], seg[2], seg[3], seg[4], genes).raised # "None"
         THEN "NotImplementedError"
         ELSE "None"

\* lines 1240-1259: the lines written to out_cnv_arm for one sample, without
\* their order, and the exception of overlap_chrom; no chromosome is X or Y
ArmEvents(cnvs, chromosome) ==
    OverlapChromEvents(chromosome, DefaultThreshold, cnvs.starts, cnvs.ends,
                       cnvs.cn_states, cnvs.is_chr_prefixed)

ArmLines(sample, cnvs, arm_table) ==
    UNION {LET events == ArmEvents(cnvs, arm_table[chrom]).value
           IN {<<sample, key, events[key]>> : key \in DOMAIN events} :
           chrom \in DOMAIN arm_table}

ArmRaised(cnvs, arm_table) ==
    IF \E chrom \in DOMAIN arm_table : ArmEvents(cnvs, arm_table[chrom]).raised # "None"
    THEN "ZeroDivisionError"
    ELSE "None"

(***************************************************************************)
(* Specification SpecPipeline: a run of generate_cnv_files on a segments   *)
(* file of up to MaxSegLines lines on chromosome 1, one step per line and  *)
(* one step per sample in each of the three loops over the samples.  An    *)
(* exception ends the run.  last stays the record of the loading: its      *)
(* pre.arm_coords is the arm table as load_chrom_arm returned it.          *)
(***************************************************************************)
InitRun ==
    /\ InitProfile
    /\ gene_coords = PipelineGenes
    /\ last = [op |-> "init", chrom |-> "", start |-> 0, end |-> 0, cn |-> 0,
               redo |-> FALSE, raised |-> "None",
               pre |-> [starts |-> EmptyDict, ends |-> EmptyDict,
                        cn_states |-> EmptyDict, len_seg |-> EmptyDict,
                        is_chr_prefixed |-> None, ploidy |-> None,
                        arm_coords |-> arm_coords, gene_coords |-> PipelineGenes]]
    /\ sample_cnvs = <<>>
    /\ sample_ids = {"A"}
    /\ out_cnv_gene = {}
    /\ out_cnv_arm = {}
    /\ log = <<>>
    /\ annotated = {}

InitPipeline ==
    /\ arm_coords \in PipelineArmTables
    /\ focal_cn_thresh \in FocalThresholds
    /\ pc = [phase |-> "cnv_segs", i |-> 0]
    /\ InitRun

PipelineReadSegment ==
    \E sample \in Samples, span \in SegSpans, cn \in SegCNs :
        /\ ReadLine(pc)
        /\ Len(log) < MaxSegLines
        /\ ReadSegment(sample, "1", span[1], span[2], cn)
        /\ UNCHANGED <<starts, ends, cn_states, len_seg, is_chr_prefixed, ploidy,
                       arm_coords, gene_coords, inserted, calls, last, returned,
                       pc, focal_cn_thresh, sample_ids, out_cnv_gene, out_cnv_arm,
                       annotated>>

\* the end of the segments file
PipelineEndOfSegments ==
    /\ pc.phase = "cnv_segs"
    /\ pc' = IF Len(sample_cnvs) = 0
             THEN [phase |-> "done", i |-> 1]
             ELSE [phase |-> "adjust_ploidy", i |-> 1]
    /\ UNCHANGED <<starts, ends, cn_states, len_seg, is_chr_prefixed, ploidy,
                   arm_coords, gene_coords, inserted, calls, last, returned,
                   sample_cnvs, focal_cn_thresh, sample_ids, out_cnv_gene,
                   out_cnv_arm, log, annotated>>

PipelineAdjustPloidy ==
    /\ pc.phase = "adjust_ploidy"
    /\ AdjustSample(pc.i)
    /\ pc' = IF SampleCNVs_adjust_ploidy(sample_cnvs[pc.i].cnvs, arm_coords).raised = "None"
             THEN NextSample(pc, Len(sample_cnvs))
             ELSE [phase |-> "raised", i |-> pc.i]
    /\ UNCHANGED <<starts, ends, cn_states, len_seg, is_chr_prefixed, ploidy,
                   gene_coords, inserted, calls, last, returned,
                   focal_cn_thresh, sample_ids, out_cnv_gene, out_cnv_arm, annotated>>

\* lines 1196-1230 for one sample
PipelineGeneOverlap ==
    LET sample == sample_cnvs[pc.i].sample
        cnvs == sample_cnvs[pc.i].cnvs
        raised == GeneRaised(cnvs, focal_cn_thresh, gene_coords)
    IN /\ pc.phase = "genes"
       /\ annotated' = annotated
                       \cup {<<sample>> \o seg : seg \in PassedSegments(cnvs, focal_cn_thresh)}
       /\ out_cnv_gene' = IF raised = "None"
                          THEN out_cnv_gene
                               \cup GeneLines(sample, cnvs, focal_cn_thresh, gene_coords)
                          ELSE out_cnv_gene
       /\ log' = Append(log, Entry("genes", sample, "", 0, 0, 0, raised, cnvs))
       /\ pc' = IF raised = "None"
                THEN NextSample(pc, Len(sample_cnvs))
                ELSE [phase |-> "raised", i |-> pc.i]
       /\ UNCHANGED <<starts, ends, cn_states, len_seg, is_chr_prefixed, ploidy,
                      arm_coords, gene_coords, inserted, calls, last, returned,
                      sample_cnvs, focal_cn_thresh, sample_ids, out_cnv_arm>>

\* lines 1240-1259 for one sample
PipelineArmOverlap ==
    LET sample == sample_cnvs[pc.i].sample
        cnvs == sample_cnvs[pc.i].cnvs
        skipped == sample \notin sample_ids
        raised == IF skipped THEN "None" ELSE ArmRaised(cnvs, arm_coords)
    IN /\ pc.phase = "arms"
       /\ out_cnv_arm' = IF skipped \/ raised # "None"
                         THEN out_cnv_arm
                         ELSE out_cnv_arm \cup ArmLines(sample, cnvs, arm_coords)
       /\ log' = IF skipped
                 THEN log
                 ELSE Append(log, Entry("arms", sample, "", 0, 0, 0, raised, cnvs))
       /\ pc' = IF raised = "None"
                THEN NextSample(pc, Len(sample_cnvs))
                ELSE [phase |-> "raised", i |-> pc.i]
       /\ UNCHANGED <<starts, ends, cn_states, len_seg, is_chr_prefixed, ploidy,
                      arm_coords, gene_coords, inserted, calls, last, returned,
                      sample_cnvs, focal_cn_thresh, sample_ids, out_cnv_gene,
                      annotated>>

NextPipeline ==
    \/ PipelineReadSegment
    \/ PipelineEndOfSegments
    \/ PipelineAdjustPloidy
    \/ PipelineGeneOverlap
    \/ PipelineArmOverlap

SpecPipeline == InitPipeline /\ [][NextPipeline]_vars

(***************************************************************************)
(* Specification SpecSamples: the add calls and the adjust_ploidy call of  *)
(* each sample, the samples taken in any order: a sample that has been     *)
(* adjusted gets no further call, the others go on.  The arm table is the  *)
(* one object all adjust_ploidy calls are given.                           *)
(***************************************************************************)
\* the spans and copy numbers of the segments, on both chromosomes
SampleSpans == {<<0, 2>>, <<1, 3>>}
SampleCNs == {1, 4}

\* the arm tables of ArmTables that have both chromosomes: one with all arms,
\* one with chromosome 1 without its p arm
SampleArmTables == {t \in ArmTables : DOMAIN t = Chroms}

\* adjust_ploidy has been called on the sample
Adjusted(sample) ==
    \E k \in 1..Len(log) : log[k].op = "adjust_ploidy" /\ log[k].sample = sample

InitSamples ==
    /\ arm_coords \in SampleArmTables
    /\ focal_cn_thresh = 30000000
    /\ pc = [phase |-> "samples", i |-> 0]
    /\ InitRun

SampleAdd ==
    \E sample \in Samples, chrom \in Chroms, span \in SampleSpans, cn \in SampleCNs :
        /\ ~Adjusted(sample)
        /\ Cardinality({k \in 1..Len(log) : log[k].op = "add"}) < MaxSegLines
        /\ ReadSegment(sample, chrom, span[1], span[2], cn)
        /\ UNCHANGED <<starts, ends, cn_states, len_seg, is_chr_prefixed, ploidy,
                       arm_coords, gene_coords, inserted, calls, last, returned,
                       pc, focal_cn_thresh, sample_ids, out_cnv_gene, out_cnv_arm,
                       annotated>>

SampleAdjustPloidy ==
    \E i \in 1..Len(sample_cnvs) :
        /\ ~Adjusted(sample_cnvs[i].sample)
        /\ AdjustSample(i)
        /\ UNCHANGED <<starts, ends, cn_states, len_seg, is_chr_prefixed, ploidy,
                       gene_coords, inserted, calls, last, returned,
                       pc, focal_cn_thresh, sample_ids, out_cnv_gene, out_cnv_arm,
                       annotated>>

NextSamples == SampleAdd \/ SampleAdjustPloidy

SpecSamples == InitSamples /\ [][NextSamples]_vars

(***************************************************************************)
(* The stored partition, read as segments and position by position.        *)
(***************************************************************************)
\* the positions p of the half-open interval [start, end)
Covers(start, end, p) == start <= p /\ p < end

\* the indices of the segments of the lists S, E that overlap [start, end)
Overlapping(S, E, start, end) == {i \in 1..Len(S) : S[i] < end /\ start < E[i]}

\* the copy-number states the lists S, E, C give to position p
CNsAt(S, E, C, p) == {C[i] : i \in {j \in 1..Len(S) : Covers(S[j], E[j], p)}}

SetMin(s) == CHOOSE x \in s : \A y \in s : x <= y
SetMax(s) == CHOOSE x \in s : \A y \in s : x >= y

\* the last call was an add that stored its segment on a chromosome that had segments
LastAddMerged ==
    /\ last.op = "add"
    /\ last.start < last.end
    /\ StripChr(last.chrom) \in DOMAIN last.pre.starts

LastChrom == StripChr(last.chrom)
PreStarts == last.pre.starts[LastChrom]
PreEnds == last.pre.ends[LastChrom]
PreCNs == last.pre.cn_states[LastChrom]

\* C1: on every chromosome the three lists have one length, the segments are
\* sorted ascending by start and every adjacent pair has end[i] <= start[i+1].
C1_SortedNonOverlapping ==
    \A c \in DOMAIN starts :
        /\ Len(starts[c]) = Len(ends[c])
        /\ Len(starts[c]) = Len(cn_states[c])
        /\ \A i \in 1..(Len(starts[c]) - 1) :
              /\ starts[c][i] <= starts[c][i + 1]
              /\ ends[c][i] <= starts[c][i + 1]

\* an add that split an existing segment in two: two calls, three segments
C1_Witness ==
    /\ LastAddMerged
    /\ Len(PreStarts) = 1
    /\ Len(starts[LastChrom]) = 3

\* C2: for every existing segment of the other family that the new segment
\* overlaps, the overlap reads the state of whichever of the two has the smaller
\* span, the new segment's span being that of the interval passed to add.
C2_SmallerSpanWins ==
    LastAddMerged =>
        \A i \in Overlapping(PreStarts, PreEnds, last.start, last.end) :
            ((PreCNs[i] < 2 /\ last.cn > 2) \/ (PreCNs[i] > 2 /\ last.cn < 2)) =>
                \A p \in Positions :
                    (Covers(PreStarts[i], PreEnds[i], p) /\ Covers(last.start, last.end, p)) =>
                        /\ PreEnds[i] - PreStarts[i] < last.end - last.start =>
                              CNsAt(starts[LastChrom], ends[LastChrom],
                                    cn_states[LastChrom], p) = {PreCNs[i]}
                        /\ last.end - last.start < PreEnds[i] - PreStarts[i] =>
                              CNsAt(starts[LastChrom], ends[LastChrom],
                                    cn_states[LastChrom], p) = {last.cn}

\* the segments successfully added to chromosome c that cover position p
InsertedAt(c, p) == {seg \in inserted[c] : Covers(seg[1], seg[2], p)}

\* C3: while the profile is not normalised, on a chromosome whose added segments
\* are all loss-family (cn <= 2) every covered position reads the minimum cn of
\* the added segments covering it; all gain-family (cn >= 2), the maximum.
C3_ExtremeStateWins ==
    ploidy = None =>
        \A c \in DOMAIN starts : \A p \in Positions :
            InsertedAt(c, p) # {} =>
                /\ (\A seg \in inserted[c] : seg[3] <= 2) =>
                      CNsAt(starts[c], ends[c], cn_states[c], p)
                          = {SetMin({seg[3] : seg \in InsertedAt(c, p)})}
                /\ (\A seg \in inserted[c] : seg[3] >= 2) =>
                      CNsAt(starts[c], ends[c], cn_states[c], p)
                          = {SetMax({seg[3] : seg \in InsertedAt(c, p)})}

\* three loss-family segments of three different states over one position, the
\* most extreme one added before the last call
C3_Witness ==
    /\ LastAddMerged
    /\ \A seg \in inserted[LastChrom] : seg[3] <= 2
    /\ \E p \in Positions :
          /\ {seg[3] : seg \in InsertedAt(LastChrom, p)} = {0, 1, 2}
          /\ last.cn # 0
          /\ Covers(last.start, last.end, p)

\* C4: an add that overlaps only segments of its own cn replaces them by the one
\* segment [min of all starts, max of all ends) and leaves the others as they were.
C4_EqualStateMerge ==
    LastAddMerged =>
        LET over == Overlapping(PreStarts, PreEnds, last.start, last.end)
        IN (over # {} /\ \A i \in over : PreCNs[i] = last.cn) =>
              LET lo == SetMin(over)
                  hi == SetMax(over)
                  ustart == SetMin({last.start} \cup {PreStarts[i] : i \in over})
                  uend == SetMax({last.end} \cup {PreEnds[i] : i \in over})
              IN /\ starts[LastChrom] = SubSeq(PreStarts, 1, lo - 1) \o <<ustart>>
                                           \o SubSeq(PreStarts, hi + 1, Len(PreStarts))
                 /\ ends[LastChrom] = SubSeq(PreEnds, 1, lo - 1) \o <<uend>>
                                         \o SubSeq(PreEnds, hi + 1, Len(PreEnds))
                 /\ cn_states[LastChrom] = SubSeq(PreCNs, 1, lo - 1) \o <<last.cn>>
                                              \o SubSeq(PreCNs, hi + 1, Len(PreCNs))

\* an add that bridged two existing segments of its own cn
C4_Witness ==
    /\ LastAddMerged
    /\ Cardinality(Overlapping(PreStarts, PreEnds, last.start, last.end)) = 2
    /\ \A i \in Overlapping(PreStarts, PreEnds, last.start, last.end) : PreCNs[i] = last.cn
    /\ Len(starts[LastChrom]) = 1

\* C5: an add whose interval lies inside one existing segment of the same cn
\* leaves the chromosome's starts, ends and cn lists as they were.
C5_CoveredSameStateNoChange ==
    LastAddMerged =>
        ((\E i \in 1..Len(PreStarts) :
              /\ PreStarts[i] <= last.start
              /\ last.end <= PreEnds[i]
              /\ PreCNs[i] = last.cn) =>
            /\ starts[LastChrom] = PreStarts
            /\ ends[LastChrom] = PreEnds
            /\ cn_states[LastChrom] = PreCNs)

\* such an add, strictly inside the existing segment, with a neighbour stored
C5_Witness ==
    /\ LastAddMerged
    /\ Len(PreStarts) = 2
    /\ \E i \in 1..Len(PreStarts) :
          /\ PreStarts[i] < last.start
          /\ last.end < PreEnds[i]
          /\ PreCNs[i] = last.cn

\* the profile is as the last call found it
ProfileUnchanged ==
    /\ starts = last.pre.starts
    /\ ends = last.pre.ends
    /\ cn_states = last.pre.cn_states
    /\ len_seg = last.pre.len_seg
    /\ is_chr_prefixed = last.pre.is_chr_prefixed
    /\ ploidy = last.pre.ploidy

\* C6: add with end < start raises TypeError and add with start = end returns,
\* both leaving the profile unchanged; every stored segment has start < end.
C6_InvalidSegmentRejected ==
    /\ (last.op = "add" /\ last.end < last.start) =>
          (last.raised = "TypeError" /\ ProfileUnchanged)
    /\ (last.op = "add" /\ last.end = last.start) =>
          (last.raised = "None" /\ ProfileUnchanged)
    /\ (last.op = "add" /\ last.start < last.end) => last.raised = "None"
    /\ \A c \in DOMAIN starts : \A i \in 1..Len(starts[c]) : starts[c][i] < ends[c][i]

\* an inverted segment offered to a chromosome that already has segments
C6_Witness ==
    /\ last.op = "add"
    /\ last.end < last.start
    /\ last.raised = "TypeError"
    /\ StripChr(last.chrom) \in DOMAIN starts

(***************************************************************************)
(* The normalisation, read from the profile and the arm table it was       *)
(* called on.                                                              *)
(***************************************************************************)
\* the last call was an adjust_ploidy that computed a ploidy and returned
LastNormalized ==
    /\ last.op = "adjust_ploidy"
    /\ last.raised = "None"
    /\ (last.pre.ploidy = None \/ last.redo)

RECURSIVE SumFn(_, _)
SumFn(f, S) ==
    IF S = {}
    THEN 0
    ELSE LET x == CHOOSE y \in S : TRUE
         IN f[x] + SumFn(f, S \ {x})

\* the length of the intersection of [start, end) with an arm window, 0 for an
\* arm that is not set
WindowOverlap(w_start, w_end, start, end) ==
    IF w_start = None
    THEN 0
    ELSE LET lo == IF start > Val(w_start) THEN start ELSE Val(w_start)
             hi == IF end < Val(w_end) THEN end ELSE Val(w_end)
         IN IF hi > lo THEN hi - lo ELSE 0

ArmOverlap(chromosome, start, end) ==
    WindowOverlap(chromosome.p_start, chromosome.p_end, start, end)
    + WindowOverlap(chromosome.q_start, chromosome.q_end, start, end)

\* the segments <<chromosome, index>> of the chromosomes of the arm table
ArmSegments(arms, S) ==
    UNION {{<<c, i>> : i \in 1..Len(S[c])} : c \in (DOMAIN arms) \cap (DOMAIN S)}

\* N: the sum of cn * overlap length; D: the sum of the overlap lengths
WeightedOverlap(arms, S, E, C) ==
    SumFn([t \in ArmSegments(arms, S) |->
              C[t[1]][t[2]] * ArmOverlap(arms[t[1]], S[t[1]][t[2]], E[t[1]][t[2]])],
          ArmSegments(arms, S))

TotalOverlap(arms, S, E) ==
    SumFn([t \in ArmSegments(arms, S) |->
              ArmOverlap(arms[t[1]], S[t[1]][t[2]], E[t[1]][t[2]])],
          ArmSegments(arms, S))

\* C7: the ploidy a normalisation caches is round(N / D), N the sum of
\* cn * overlap length with the p and q windows over the chromosomes of the arm
\* table and D the sum of those overlap lengths.
C7_PloidyIsWeightedAverage ==
    LastNormalized =>
        LET N == WeightedOverlap(last.pre.arm_coords, last.pre.starts,
                                 last.pre.ends, last.pre.cn_states)
            D == TotalOverlap(last.pre.arm_coords, last.pre.starts, last.pre.ends)
        IN D > 0 /\ ploidy = Some(Round(N, D))

\* C8: after a normalisation that returned, the length-weighted average cn of
\* the profile over the same arm table rounds to 2.
C8_RebaselinedToDiploid ==
    LastNormalized =>
        LET N == WeightedOverlap(last.pre.arm_coords, starts, ends, cn_states)
            D == TotalOverlap(last.pre.arm_coords, starts, ends)
        IN D > 0 /\ Round(N, D) = 2

\* C9: a normalisation that returns caches a ploidy, lowers the cn of every
\* segment of every chromosome of the profile by (ploidy - 2), which is no change
\* for ploidy 2, and leaves every start, every end and the order as they were.
C9_ShiftEveryChromosome ==
    LastNormalized =>
        /\ ploidy # None
        /\ starts = last.pre.starts
        /\ ends = last.pre.ends
        /\ DOMAIN cn_states = DOMAIN last.pre.cn_states
        /\ \A c \in DOMAIN cn_states :
              /\ Len(cn_states[c]) = Len(last.pre.cn_states[c])
              /\ \A i \in 1..Len(cn_states[c]) :
                    cn_states[c][i] = last.pre.cn_states[c][i] - (Val(ploidy) - 2)

\* a normalisation to a ploidy other than 2 of a profile with segments on a
\* chromosome that the arm table does not have
C9_Witness ==
    /\ LastNormalized
    /\ Val(ploidy) # 2
    /\ "2" \in DOMAIN cn_states
    /\ "2" \notin DOMAIN arm_coords
    /\ cn_states["2"] # last.pre.cn_states["2"]

\* C10: every stored cn is a non-negative integer.
C10_NonNegativeCN ==
    \A c \in DOMAIN cn_states : \A i \in 1..Len(cn_states[c]) : cn_states[c][i] >= 0

\* the last call was an adjust_ploidy that found a cached ploidy and was not forced
LastRepeated ==
    /\ last.op = "adjust_ploidy"
    /\ last.pre.ploidy # None
    /\ ~last.redo

\* C11: once a ploidy is cached, an adjust_ploidy call without redo returns
\* without changing any cn or the cached ploidy.
C11_IdempotentUnlessForced ==
    LastRepeated =>
        /\ last.raised = "None"
        /\ cn_states = last.pre.cn_states
        /\ ploidy = last.pre.ploidy

\* such a call on a profile that a first normalisation has rewritten and that a
\* new computation would rewrite again
C11_Witness ==
    /\ LastRepeated
    /\ Val(ploidy) # 2
    /\ DOMAIN cn_states # {}
    /\ AvPloidy(arm_coords, starts, ends, cn_states, is_chr_prefixed) # 2

\* the last call was an adjust_ploidy that computed a ploidy
LastComputed ==
    /\ last.op = "adjust_ploidy"
    /\ (last.pre.ploidy = None \/ last.redo)

\* the rounded ploidy the last adjust_ploidy computed from the profile it found
LastAvPloidy ==
    AvPloidy([c \in DOMAIN last.pre.arm_coords |->
                 WithPlaceholders(last.pre.arm_coords[c])],
             last.pre.starts, last.pre.ends, last.pre.cn_states,
             last.pre.is_chr_prefixed)

\* C12: an adjust_ploidy that computes a rounded ploidy below 1 raises TypeError,
\* and then no cn has changed and no ploidy is cached.
C12_InvalidPloidyRaises ==
    LastComputed =>
        /\ (LastAvPloidy < 1) => last.raised = "TypeError"
        /\ (last.raised = "TypeError") =>
              /\ cn_states = last.pre.cn_states
              /\ ploidy = None

\* a profile with deleted segments on an arm, whose ploidy rounds to 0
C12_Witness ==
    /\ LastComputed
    /\ last.raised = "TypeError"
    /\ LastAvPloidy = 0
    /\ \E c \in (DOMAIN cn_states) \cap (DOMAIN arm_coords) : \E i \in 1..Len(cn_states[c]) :
          cn_states[c][i] > 0 /\ ArmOverlap(last.pre.arm_coords[c], starts[c][i], ends[c][i]) > 0

\* C13: no call changes a field of an arm definition or of a gene: the arm
\* table and the gene table are as the last call found them.
C13_TablesNeverMutated ==
    /\ arm_coords = last.pre.arm_coords
    /\ gene_coords = last.pre.gene_coords

\* the chromosomes of the arm table the last call found with exactly one arm set
OneArmOnly ==
    {c \in DOMAIN last.pre.arm_coords :
        (last.pre.arm_coords[c].p_start = None) # (last.pre.arm_coords[c].q_start = None)}

\* the genome size when every unset arm counts 1
GenomeSizeOneForUnset(arms) ==
    SumFn([c \in DOMAIN arms |->
              (IF arms[c].p_start = None THEN 1 ELSE arms[c].p_length)
              + (IF arms[c].q_start = None THEN 1 ELSE arms[c].q_length)],
          DOMAIN arms)

\* C14: with exactly one arm of a chromosome unset, the unset arm has become a
\* window of length 1 that adds 1 to the genome size and overlaps no segment,
\* and the overlap of every segment with the arm that is set is still summed:
\* the ploidy is round(N / G), N the sum of cn * overlap with the arms that are
\* set and G the genome size with 1 for each unset arm.
C14_PlaceholderArm ==
    (LastComputed /\ OneArmOnly # {}) =>
        LET N == WeightedOverlap(last.pre.arm_coords, last.pre.starts,
                                 last.pre.ends, last.pre.cn_states)
            G == GenomeSizeOneForUnset(last.pre.arm_coords)
        IN /\ \A c \in OneArmOnly :
                 /\ arm_coords[c].p_length + arm_coords[c].q_length
                       = last.pre.arm_coords[c].p_length
                         + last.pre.arm_coords[c].q_length + 1
                 /\ arm_coords[c].p_start # None
                 /\ arm_coords[c].q_start # None
           /\ (last.raised = "TypeError") = (Round(N, G) < 1)
           /\ (last.raised = "None") => ploidy = Some(Round(N, G))

(***************************************************************************)
(* The classification, read from the profile and the arm definition        *)
(* overlap_chrom was called on.                                            *)
(***************************************************************************)
\* the arm definition and the segments of the last overlap_chrom call
LastArms == last.pre.arm_coords[last.chrom]
LastName == ChromName(LastArms.chrom, last.pre.is_chr_prefixed)
LastHasSegments == LastName \in DOMAIN last.pre.starts
LastS == last.pre.starts[LastName]
LastE == last.pre.ends[LastName]
LastC == last.pre.cn_states[LastName]

\* the copy-number states of a bucket
InBucket(bucket, cn) ==
    CASE bucket = "del" -> cn < 2
      [] bucket = "homdel" -> cn < 1
      [] bucket = "gain" -> cn > 2
      [] bucket = "amp" -> cn > 3

\* the length of the intersection of [start, end) with the window of an arm
ArmWindowOverlap(chromosome, arm, start, end) ==
    IF arm = "p"
    THEN WindowOverlap(chromosome.p_start, chromosome.p_end, start, end)
    ELSE WindowOverlap(chromosome.q_start, chromosome.q_end, start, end)

\* the bucket of an arm: the overlap lengths of the segments of the bucket's states
Bucket(bucket, arm, chromosome, S, E, C) ==
    SumFn([i \in 1..Len(S) |->
              IF InBucket(bucket, C[i])
              THEN ArmWindowOverlap(chromosome, arm, S[i], E[i])
              ELSE 0],
          1..Len(S))

Buckets == {"del", "homdel", "gain", "amp"}

\* C15: the sums overlap_chrom accumulates are, for each arm, the overlap
\* lengths with that arm's window of the segments with cn < 2 (del), cn < 1
\* (homdel), cn > 2 (gain) and cn > 3 (amp); the Chrom sum is the p sum plus
\* the q sum, homdel <= del and amp <= gain on every key.
C15_BucketsAreArmOverlaps ==
    (last.op = "overlap_chrom" /\ LastHasSegments) =>
        /\ \A bucket \in Buckets :
              LET sum == Sums(bucket, LastArms, LastS, LastE, LastC)
              IN /\ sum.p = Bucket(bucket, "p", LastArms, LastS, LastE, LastC)
                 /\ sum.q = Bucket(bucket, "q", LastArms, LastS, LastE, LastC)
                 /\ sum.Chrom = sum.p + sum.q
        /\ \A k \in {"p", "q", "Chrom"} :
              /\ Sums("homdel", LastArms, LastS, LastE, LastC)[k]
                    <= Sums("del", LastArms, LastS, LastE, LastC)[k]
              /\ Sums("amp", LastArms, LastS, LastE, LastC)[k]
                    <= Sums("gain", LastArms, LastS, LastE, LastC)[k]

\* the last overlap_chrom call returned; Events is the mapping it returned
LastClassified == last.op = "overlap_chrom" /\ last.raised = "None"
Events == Val(returned)

\* the length a key's bucket is divided by, and the bucket of a key
KeyLength(chromosome, k) ==
    IF k = "p" THEN chromosome.p_length
    ELSE IF k = "q" THEN chromosome.q_length
    ELSE chromosome.p_length + chromosome.q_length

KeyBucket(bucket, k) ==
    IF k = "Chrom"
    THEN Bucket(bucket, "p", LastArms, LastS, LastE, LastC)
         + Bucket(bucket, "q", LastArms, LastS, LastE, LastC)
    ELSE Bucket(bucket, k, LastArms, LastS, LastE, LastC)

\* bucket(key) / length(key) > threshold of the last call, and = threshold
FractionAbove(bucket, k) ==
    /\ KeyLength(LastArms, k) > 0
    /\ KeyBucket(bucket, k) * last.threshold[2] > last.threshold[1] * KeyLength(LastArms, k)

FractionEqual(bucket, k) ==
    /\ KeyLength(LastArms, k) > 0
    /\ KeyBucket(bucket, k) * last.threshold[2] = last.threshold[1] * KeyLength(LastArms, k)

\* the bucket that justifies a label
BucketOf(label) ==
    CASE label = "AMP" -> "amp"
      [] label = "GAIN" -> "gain"
      [] label = "HOMDEL" -> "homdel"
      [] label = "HETLOSS" -> "del"

\* C16: every key of the mapping overlap_chrom returns is a key of the
\* chromosome and carries a label whose bucket fraction is strictly above the
\* threshold; a chromosome without segments in the profile gives the empty mapping.
C16_LabelsJustified ==
    /\ LastClassified =>
          \A key \in DOMAIN Events :
              /\ key[1] = LastName
              /\ key[2] \in {"p", "q", "Chrom"}
              /\ Events[key] \in {"AMP", "GAIN", "HOMDEL", "HETLOSS"}
              /\ FractionAbove(BucketOf(Events[key]), key[2])
    /\ (last.op = "overlap_chrom" /\ ~LastHasSegments) =>
          (last.raised = "None" /\ returned = Some(EmptyDict))

\* a call that returns a label and leaves without AMP an arm whose amp fraction
\* equals the threshold
C16_Witness ==
    /\ LastClassified
    /\ DOMAIN Events # {}
    /\ \E k \in {"p", "q"} :
          /\ FractionEqual("amp", k)
          /\ KeyBucket("amp", k) > 0
          /\ Key(LastName, k) \notin DOMAIN Events

\* the arms of the last call's chromosome that carry one of the labels
ArmsLabelled(labels) ==
    {k \in {"p", "q"} :
        Key(LastName, k) \in DOMAIN Events /\ Events[Key(LastName, k)] \in labels}

ChromLabel ==
    IF Key(LastName, "Chrom") \in DOMAIN Events
    THEN Events[Key(LastName, "Chrom")]
    ELSE "None"

\* C17: no key carries GAIN with an amp fraction above the threshold or HETLOSS
\* with a homdel fraction above it; with the Chrom key labelled AMP no arm
\* carries AMP or GAIN, labelled HOMDEL no arm carries HOMDEL or HETLOSS,
\* labelled GAIN no arm carries GAIN, labelled HETLOSS no arm carries HETLOSS.
C17_HigherTierShadows ==
    LastClassified =>
        /\ \A key \in DOMAIN Events :
              /\ Events[key] = "GAIN" => ~FractionAbove("amp", key[2])
              /\ Events[key] = "HETLOSS" => ~FractionAbove("homdel", key[2])
        /\ ChromLabel = "AMP" => ArmsLabelled({"AMP", "GAIN"}) = {}
        /\ ChromLabel = "HOMDEL" => ArmsLabelled({"HOMDEL", "HETLOSS"}) = {}
        /\ ChromLabel = "GAIN" => ArmsLabelled({"GAIN"}) = {}
        /\ ChromLabel = "HETLOSS" => ArmsLabelled({"HETLOSS"}) = {}

\* the Chrom key labelled GAIN beside an arm labelled AMP, both arms with a
\* gain fraction above the threshold
C17_Witness ==
    /\ LastClassified
    /\ ChromLabel = "GAIN"
    /\ ArmsLabelled({"AMP"}) # {}
    /\ FractionAbove("gain", "p")
    /\ FractionAbove("gain", "q")

\* the cn list with the segments of one family made copy-neutral
WithoutGains(C) == [i \in 1..Len(C) |-> IF C[i] > 2 THEN 2 ELSE C[i]]
WithoutLosses(C) == [i \in 1..Len(C) |-> IF C[i] < 2 THEN 2 ELSE C[i]]

\* what overlap_chrom hands back for the last call's chromosome and threshold
\* when the profile's cn list on that chromosome is C
ClassifiedWith(C) ==
    OverlapChromEvents(LastArms, last.threshold, last.pre.starts, last.pre.ends,
                       DictSet(last.pre.cn_states, LastName, C),
                       last.pre.is_chr_prefixed)

\* the part of a mapping that carries the labels of one family
Restrict(events, labels) ==
    [key \in {k \in DOMAIN events : events[k] \in labels} |-> events[key]]

\* C18: the HOMDEL/HETLOSS labels returned are those returned for the same
\* profile without its gain segments, and the AMP/GAIN labels are those returned
\* for the same profile without its loss segments, whatever the threshold.
C18_FamiliesIndependent ==
    (LastClassified /\ LastHasSegments) =>
        /\ ClassifiedWith(WithoutGains(LastC)).raised = "None" =>
              Restrict(Events, {"HOMDEL", "HETLOSS"})
                 = Restrict(ClassifiedWith(WithoutGains(LastC)).value, {"HOMDEL", "HETLOSS"})
        /\ ClassifiedWith(WithoutLosses(LastC)).raised = "None" =>
              Restrict(Events, {"AMP", "GAIN"})
                 = Restrict(ClassifiedWith(WithoutLosses(LastC)).value, {"AMP", "GAIN"})

\* C19: overlap_chrom, called after adjust_ploidy, does not raise
\* ZeroDivisionError, whatever arm definition the loader and the placeholder
\* substitution produced.
C19_NoDivisionByZero ==
    last.op = "overlap_chrom" => last.raised # "ZeroDivisionError"

(***************************************************************************)
(* The gene overlap, read from the gene table and the segment handed to    *)
(* get_overlap_genes.                                                      *)
(***************************************************************************)
\* the genes of the gene table on the contig of the last call, in table order
LastGenes ==
    IF StripChr(last.chrom) \in DOMAIN last.pre.gene_coords
    THEN last.pre.gene_coords[StripChr(last.chrom)]
    ELSE <<>>

\* the names of a sequence of genes
Names(genes) == [i \in 1..Len(genes) |-> genes[i].name]

\* the genes that intersect the segment of the last call, and those it contains
LastIntersected ==
    LET Test(gene) == last.start < gene.end /\ last.end > gene.start
    IN SelectSeq(LastGenes, Test)

LastContained ==
    LET Test(gene) == last.start <= gene.start /\ gene.end <= last.end
    IN SelectSeq(LastGenes, Test)

\* C20: get_overlap_genes returns, for cn < 2, the genes of the segment's contig
\* that intersect [start, end) and, for cn > 2, the genes of the contig that lie
\* wholly inside the segment; a contig without genes gives the empty list.
C20_GeneOverlapPolicy ==
    last.op = "get_overlap_genes" =>
        /\ last.cn < 2 =>
              (last.raised = "None" /\ returned = Some(Names(LastIntersected)))
        /\ last.cn > 2 =>
              (last.raised = "None" /\ returned = Some(Names(LastContained)))
        /\ LastGenes = <<>> => (last.raised = "None" /\ returned = Some(<<>>))

\* a gain that contains one gene and overlaps another in part
C20_Witness ==
    /\ last.op = "get_overlap_genes"
    /\ last.cn > 2
    /\ returned # Some(<<>>)
    /\ Len(LastContained) < Len(LastIntersected)

\* C21: get_overlap_genes called with cn = 2 raises NotImplementedError, whatever
\* the segment and the gene table, also when no gene intersects the segment or
\* the contig has no genes.
C21_CopyNeutralAlwaysFails ==
    (last.op = "get_overlap_genes" /\ last.cn = 2) =>
        last.raised = "NotImplementedError"

(***************************************************************************)
(* The arm definition, read from the Chromosome the last add was called on.*)
(***************************************************************************)
LastChromosomeBefore == last.pre.arm_coords[last.chrom]
LastChromosomeAfter == arm_coords[last.chrom]

\* both arms of the chromosome have coordinates
BothArmsSet(chromosome) == chromosome.p_start # None /\ chromosome.q_start # None

\* C22: Chromosome.add raises AttributeError for an arm that already has
\* coordinates (leaving them as they were), for an arm label other than p or q,
\* and when the two arms it leaves set have p_end > q_start; so a Chromosome
\* with both arms set on which no add call has raised has p_end <= q_start.
C22_ArmAssignmentsChecked ==
    last.op = "Chromosome.add" =>
        /\ last.arm \notin {"p", "q"} =>
              (last.raised = "AttributeError" /\ LastChromosomeAfter = LastChromosomeBefore)
        /\ (last.arm = "p" /\ LastChromosomeBefore.p_start # None) =>
              (last.raised = "AttributeError" /\ LastChromosomeAfter = LastChromosomeBefore)
        /\ (last.arm = "q" /\ LastChromosomeBefore.q_start # None) =>
              (last.raised = "AttributeError" /\ LastChromosomeAfter = LastChromosomeBefore)
        /\ (BothArmsSet(LastChromosomeAfter)
            /\ Val(LastChromosomeAfter.p_end) > Val(LastChromosomeAfter.q_start)) =>
              last.raised = "AttributeError"
        /\ (last.raised = "None" /\ BothArmsSet(LastChromosomeAfter)) =>
              Val(LastChromosomeAfter.p_end) <= Val(LastChromosomeAfter.q_start)

\* the p arm added after the q arm, ending where the q arm starts
C22_Witness ==
    /\ last.op = "Chromosome.add"
    /\ last.arm = "p"
    /\ last.raised = "None"
    /\ BothArmsSet(LastChromosomeAfter)
    /\ LastChromosomeAfter.p_end = LastChromosomeAfter.q_start
    /\ LastChromosomeAfter.p_length > 0

\* position p is covered by a stored segment of chromosome c
Covered(c, p) ==
    /\ c \in DOMAIN starts
    /\ \E i \in 1..Len(starts[c]) : Covers(starts[c][i], ends[c][i], p)

\* C27: on every chromosome the positions covered by the stored segments are
\* the positions covered by the non-empty segments that were inserted: no
\* position is lost and none is covered that no inserted segment covers.
C27_CoverageIsUnionOfInserted ==
    \A c \in Chroms : \A p \in Positions :
        Covered(c, p) <=> (InsertedAt(c, p) # {})

\* three inserts with three different states that overlap pairwise, leaving
\* positions outside all of them uncovered
C27_Witness ==
    /\ LastAddMerged
    /\ Cardinality(inserted[LastChrom]) = 3
    /\ Cardinality({seg[3] : seg \in inserted[LastChrom]}) = 3
    /\ Len(PreStarts) >= 2
    /\ \A i \in 1..Len(PreStarts) :
          i \in Overlapping(PreStarts, PreEnds, last.start, last.end)
    /\ \E p \in Positions : p < MaxPos /\ ~Covered(LastChrom, p)

\* the stored segments of a chromosome as a set of (start, end, cn)
Segments(S, E, C) == {<<S[i], E[i], C[i]>> : i \in 1..Len(S)}

\* the segment of the last add touches an existing segment end to start
LastAbuts ==
    \E i \in 1..Len(PreStarts) : PreEnds[i] = last.start \/ PreStarts[i] = last.end

\* C29: a new segment that overlaps no existing segment, in particular one that
\* only abuts an existing segment (existing end = new start, or new end =
\* existing start), is stored as a segment of its own and every existing
\* segment stays as it was, also when the copy-number states are equal.
C29_AbuttingNotMerged ==
    (LastAddMerged /\ Overlapping(PreStarts, PreEnds, last.start, last.end) = {}) =>
        /\ Len(starts[LastChrom]) = Len(PreStarts) + 1
        /\ Segments(starts[LastChrom], ends[LastChrom], cn_states[LastChrom])
              = Segments(PreStarts, PreEnds, PreCNs)
                \cup {<<last.start, last.end, last.cn>>}

\* a segment added between two segments of its own state, touching both
C29_Witness ==
    /\ LastAddMerged
    /\ Overlapping(PreStarts, PreEnds, last.start, last.end) = {}
    /\ \E i \in 1..Len(PreStarts) : PreEnds[i] = last.start /\ PreCNs[i] = last.cn
    /\ \E i \in 1..Len(PreStarts) : PreStarts[i] = last.end /\ PreCNs[i] = last.cn
    /\ Len(starts[LastChrom]) = 3

\* the arm windows have start <= end
WellFormedArms(chromosome) ==
    /\ Val(chromosome.p_start) <= Val(chromosome.p_end)
    /\ Val(chromosome.q_start) <= Val(chromosome.q_end)

\* C30: with arm windows that have start <= end, every overlap length that
\* overlap_chrom and adjust_ploidy compute for a segment is >= 0, every sum of
\* an arm is between 0 and the arm's length and every Chrom sum is between 0
\* and p_length + q_length.
C30_OverlapsWithinArms ==
    /\ (last.op = "overlap_chrom" /\ LastHasSegments /\ WellFormedArms(LastArms)) =>
          /\ \A i \in 1..Len(LastS) :
                /\ OlapP(LastArms, LastS[i], LastE[i]) >= 0
                /\ OlapQ(LastArms, LastS[i], LastE[i]) >= 0
          /\ \A bucket \in Buckets :
                LET sum == Sums(bucket, LastArms, LastS, LastE, LastC)
                IN /\ 0 <= sum.p /\ sum.p <= LastArms.p_length
                   /\ 0 <= sum.q /\ sum.q <= LastArms.q_length
                   /\ 0 <= sum.Chrom
                   /\ sum.Chrom <= LastArms.p_length + LastArms.q_length
    /\ (last.op = "adjust_ploidy" /\ last.pre.ploidy = None) =>
          \A c \in (DOMAIN last.pre.starts) \cap (DOMAIN last.pre.arm_coords) :
              LET chromosome == WithPlaceholders(last.pre.arm_coords[c])
              IN WellFormedArms(chromosome) =>
                    \A i \in 1..Len(last.pre.starts[c]) :
                        /\ SegmentBases(chromosome, last.pre.starts[c][i],
                                        last.pre.ends[c][i]) >= 0
                        /\ SegmentBases(chromosome, last.pre.starts[c][i],
                                        last.pre.ends[c][i])
                              <= chromosome.p_length + chromosome.q_length

\* a classified chromosome with a segment that lies in the q arm only and a
\* segment that spans both arms and fills the p arm's gain sum
C30_Witness ==
    /\ last.op = "overlap_chrom"
    /\ LastHasSegments
    /\ WellFormedArms(LastArms)
    /\ LastArms.p_length > 1
    /\ \E i \in 1..Len(LastS) : LastS[i] >= Val(LastArms.q_start) /\ LastS[i] > Val(LastArms.p_end)
    /\ \E i \in 1..Len(LastS) :
          /\ OlapP(LastArms, LastS[i], LastE[i]) > 0
          /\ OlapQ(LastArms, LastS[i], LastE[i]) > 0
    /\ Sums("gain", LastArms, LastS, LastE, LastC).p = LastArms.p_length

\* the label of key k of the chromosome in the returned mapping is label
Labelled(k, label) ==
    /\ Key(LastName, k) \in DOMAIN Events
    /\ Events[Key(LastName, k)] = label

\* C28: with arm lengths above 0, a q arm whose amp fraction is above the
\* threshold gives AMP on the q key or on the Chrom key, and a q arm whose
\* homdel fraction is above the threshold gives HOMDEL on the q key or on the
\* Chrom key.
C28_QualifyingQArmLabelled ==
    (LastClassified /\ LastHasSegments
     /\ LastArms.p_length > 0 /\ LastArms.q_length > 0) =>
        /\ FractionAbove("amp", "q") => (Labelled("q", "AMP") \/ Labelled("Chrom", "AMP"))
        /\ FractionAbove("homdel", "q") =>
              (Labelled("q", "HOMDEL") \/ Labelled("Chrom", "HOMDEL"))

\* the overlaps the last add resolved
LastResolutions == Resolutions(PreStarts, PreEnds, PreCNs, last.start, last.end, last.cn)

\* C26: every add returns, and the overlaps it resolves (merges, truncations of
\* the new event, truncations of an existing event) are at most as many as the
\* existing segments that overlap the inserted interval, however many segments
\* the chromosome has.
C26_ResolutionsBounded ==
    LastAddMerged =>
        LastResolutions
           <= Cardinality(Overlapping(PreStarts, PreEnds, last.start, last.end))

\* an add over three existing segments, one left untouched, that resolves two
\* overlaps
C26_Witness ==
    /\ LastAddMerged
    /\ Len(PreStarts) = 3
    /\ Cardinality(Overlapping(PreStarts, PreEnds, last.start, last.end)) = 2
    /\ LastResolutions = 2

(***************************************************************************)
(* A run of generate_cnv_files, read from the record of its calls.         *)
(***************************************************************************)
\* the entries of the record with one of the operations ops on a sample
EntriesOf(ops, sample) ==
    {k \in 1..Len(log) : log[k].op \in ops /\ log[k].sample = sample}

\* the samples of the segments file read so far
SamplesRead == {sample_cnvs[i].sample : i \in 1..Len(sample_cnvs)}

\* the object of a sample
CnvsOf(sample) == sample_cnvs[Index(sample_cnvs, sample)].cnvs

\* C23: in a run of generate_cnv_files every add of every sample precedes every
\* adjust_ploidy; no sample is adjusted twice, and once the gene loop has
\* started every sample has been adjusted exactly once; the gene loop and the
\* arm loop read, for each sample, the object as its adjust_ploidy left it;
\* and the starts, ends and cn_states of a sample stay as its adjust_ploidy
\* left them.
C23_InsertNormalizeAnnotate ==
    /\ \A j \in 1..Len(log) : \A k \in 1..Len(log) :
          (log[j].op = "adjust_ploidy" /\ log[k].op \in {"add", "skip"}) => k < j
    /\ \A sample \in SamplesRead :
          /\ Cardinality(EntriesOf({"adjust_ploidy"}, sample)) <= 1
          /\ pc.phase \in {"genes", "arms", "done"} =>
                /\ Cardinality(EntriesOf({"adjust_ploidy"}, sample)) = 1
                /\ CnvsOf(sample).ploidy # None
    /\ \A k \in 1..Len(log) :
          log[k].op \in {"genes", "arms"} =>
              /\ \A sample \in SamplesRead :
                    \E j \in EntriesOf({"adjust_ploidy"}, sample) :
                        j < k /\ log[j].raised = "None"
              /\ \A j \in EntriesOf({"adjust_ploidy"}, log[k].sample) :
                    log[k].cnvs = log[j].cnvs
    /\ \A sample \in SamplesRead :
          \A j \in EntriesOf({"adjust_ploidy"}, sample) :
              CnvsOf(sample) = log[j].cnvs

\* a finished run over two samples, one of them with two segments, whose
\* copy numbers adjust_ploidy has shifted
C23_Witness ==
    /\ pc.phase = "done"
    /\ Len(sample_cnvs) = 2
    /\ \E i \in 1..2 :
          /\ Len(sample_cnvs[i].cnvs.starts["1"]) = 2
          /\ sample_cnvs[i].cnvs.ploidy = Some(3)
    /\ out_cnv_gene # {}
    /\ out_cnv_arm # {}

\* the segments (chrom, start, end, cn) of an object
SegmentsOf(cnvs) ==
    UNION {{<<chrom, cnvs.starts[chrom][i], cnvs.ends[chrom][i], cnvs.cn_states[chrom][i]>> :
              i \in 1..Len(cnvs.starts[chrom])} :
           chrom \in DOMAIN cnvs.starts}

\* the event kind of a copy number that is not 2
KindOf(cn) ==
    CASE cn > 3 -> "AMP"
      [] cn = 3 -> "GAIN"
      [] cn = 1 -> "HETLOSS"
      [] cn < 1 -> "HOMDEL"

\* the names of the genes of the table on a contig
GenesOn(chrom) ==
    IF chrom \in DOMAIN gene_coords
    THEN {gene_coords[chrom][g].name : g \in 1..Len(gene_coords[chrom])}
    ELSE {}

\* C24: every line of the gene file comes from a segment of its sample, as
\* adjust_ploidy left it, with cn # 2 and end - start < focal_cn_thresh, and
\* its type is AMP for cn > 3, GAIN for cn = 3, HOMDEL for cn < 1 and HETLOSS
\* for cn = 1; get_overlap_genes is called only with such segments, never with
\* cn = 2.
C24_FocalNonNeutralOnly ==
    /\ \A line \in out_cnv_gene :
          \E seg \in SegmentsOf(CnvsOf(line[1])) :
              /\ CnvsOf(line[1]).ploidy # None
              /\ seg[4] # 2
              /\ seg[3] - seg[2] < focal_cn_thresh
              /\ line[3] = KindOf(seg[4])
              /\ line[2] \in GenesOn(seg[1])
    /\ \A call \in annotated :
          /\ call[5] # 2
          /\ call[4] - call[3] < focal_cn_thresh
          /\ <<call[2], call[3], call[4], call[5]>> \in SegmentsOf(CnvsOf(call[1]))

\* a run with focal_cn_thresh = 2 and a sample that has a gain of length 2,
\* which is not looked up, and a loss of length 1, which gives a line
C24_Witness ==
    /\ focal_cn_thresh = 2
    /\ pc.phase \in {"arms", "done"}
    /\ \E i \in 1..Len(sample_cnvs) :
          /\ \E seg \in SegmentsOf(sample_cnvs[i].cnvs) :
                /\ seg[4] > 2
                /\ seg[3] - seg[2] = 2
                /\ <<sample_cnvs[i].sample>> \o seg \notin annotated
          /\ \E seg \in SegmentsOf(sample_cnvs[i].cnvs) :
                /\ seg[4] < 2
                /\ seg[3] - seg[2] = 1
                /\ <<sample_cnvs[i].sample>> \o seg \in annotated
          /\ \E line \in out_cnv_gene :
                line[1] = sample_cnvs[i].sample /\ line[3] \in {"HETLOSS", "HOMDEL"}

(***************************************************************************)
(* The calls of one sample, made again on a new object and on the arm      *)
(* table as it was loaded.                                                 *)
(***************************************************************************)
LoadedArms == last.pre.arm_coords

\* the object after those of the calls k..Len(log) that were made on the
\* sample: its add calls on the chromosomes chroms and, unless the arm table
\* is empty, its adjust_ploidy call
RECURSIVE Replay(_, _, _, _, _)
Replay(sample, chroms, k, self, arm_table) ==
    IF k > Len(log)
    THEN self
    ELSE IF log[k].sample # sample
    THEN Replay(sample, chroms, k + 1, self, arm_table)
    ELSE IF log[k].op = "add" /\ log[k].chrom \in chroms
    THEN Replay(sample, chroms, k + 1,
                SampleCNVs_add(self, log[k].chrom, log[k].start, log[k].end, log[k].cn),
                arm_table)
    ELSE IF log[k].op = "adjust_ploidy" /\ DOMAIN arm_table # {}
    THEN LET r == SampleCNVs_adjust_ploidy(self, arm_table)
         IN Replay(sample, chroms, k + 1, r.self, r.arm_coords)
    ELSE Replay(sample, chroms, k + 1, self, arm_table)

\* the add calls of the sample on one chromosome alone
AddsOn(sample, chrom) ==
    Replay(sample, {chrom}, 1, SampleCNVs, [c \in {} |-> Chromosome(c)])

\* the copy numbers before adjust_ploidy shifted them
Unshifted(cnvs, chrom) ==
    IF cnvs.ploidy = None \/ cnvs.ploidy = Some(2)
    THEN cnvs.cn_states[chrom]
    ELSE [i \in 1..Len(cnvs.cn_states[chrom]) |->
             cnvs.cn_states[chrom][i] + (Val(cnvs.ploidy) - 2)]

\* C25: whatever the order in which the calls of the samples are made, the
\* object of each sample (its starts, ends, cn_states and ploidy) is the one
\* its own calls give on a new object with the arm table as loaded, so no call
\* on another sample has changed it; and the segments of each chromosome are
\* the ones the add calls on that chromosome alone give.
C25_SamplesIndependent ==
    \A sample \in SamplesRead :
        /\ CnvsOf(sample) = Replay(sample, Chroms, 1, SampleCNVs, LoadedArms)
        /\ \A chrom \in DOMAIN CnvsOf(sample).starts :
              /\ CnvsOf(sample).starts[chrom] = AddsOn(sample, chrom).starts[chrom]
              /\ CnvsOf(sample).ends[chrom] = AddsOn(sample, chrom).ends[chrom]
              /\ Unshifted(CnvsOf(sample), chrom) = AddsOn(sample, chrom).cn_states[chrom]

\* two samples, both adjusted to a ploidy other than 2 on an arm table that
\* was loaded with an arm unset; the second got an add after the first had been
\* adjusted, and one of them has segments on both chromosomes
C25_Witness ==
    /\ Len(sample_cnvs) = 2
    /\ \A i \in 1..2 : sample_cnvs[i].cnvs.ploidy \notin {None, Some(2)}
    /\ \E c \in DOMAIN LoadedArms : LoadedArms[c].p_start = None
    /\ \E j \in 1..Len(log) : \E k \in 1..Len(log) :
          j < k /\ log[j].op = "adjust_ploidy" /\ log[k].op = "add"
    /\ \E i \in 1..2 : DOMAIN sample_cnvs[i].cnvs.starts = Chroms

====
